--------------------------- MODULE MDEngineProofs ---------------------------
(***************************************************************************)
(* Proofs about MDEngine: the history is subscribed, nothing else is, and  *)
(* no null api is called, with any types, tickers and bounds.              *)
(*                                                                         *)
(* What the invariant adds to the three is where the flags may lie: while  *)
(* the engine opens or has an api, being logged in means that the front is *)
(* up; a login that survives release_api came late, and a flag that does   *)
(* was set in the middle of it.                                            *)
(***************************************************************************)
EXTENDS MDEngine, TLAPS

Opening == pc \in {"connect", "ask", "login", "end"}

FlagsHonest ==
  /\ link => api
  /\ pc = "connect" => api
  /\ logged_in /\ (api \/ Opening) => link
  /\ pc = "release" /\ logged_in => late
  /\ pc = "idle" /\ logged_in /\ ~api => late
  /\ (connected \/ logged_in) /\ (~api \/ pc = "release") => inClose

Inv ==
  /\ FlagsHonest
  /\ HistorySubscribed
  /\ OnlyAskedSubscribed /\ subs_tickers \subseteq leftOver
  /\ NoNullCall

(* The flags stay honest, whatever the counter and the listening thread do. *)
LEMMA FlagsStep == ASSUME FlagsHonest, [Next]_vars PROVE FlagsHonest'
<1> USE DEF FlagsHonest, Opening, flags, subs, counter, history
<1>1. CASE EngineOpen BY <1>1 DEF EngineOpen, Connect
<1>2. CASE ConnectEnds BY <1>2 DEF ConnectEnds
<1>3. CASE Ask BY <1>3 DEF Ask, Crash
<1>4. CASE LoginEnds BY <1>4 DEF LoginEnds
<1>5. CASE OpenEnds BY <1>5 DEF OpenEnds
<1>6. CASE ReleaseApi BY <1>6 DEF ReleaseApi
<1>7. CASE EngineClose BY <1>7 DEF EngineClose, Logout, Crash
<1>8. ASSUME NEW type \in Types, NEW T \in (SUBSET Tickers) \ {{}}, SubscribeBatch(type, T)
      PROVE  FlagsHonest'
  BY <1>8 DEF SubscribeBatch, Crash
<1>9. CASE OnFrontConnected BY <1>9 DEF OnFrontConnected, Called
<1>10. CASE OnFrontDisconnected BY <1>10 DEF OnFrontDisconnected, Disconnected
<1>11. CASE OnRspUserLogin BY <1>11 DEF OnRspUserLogin, Called
<1>12. CASE LoginRefused BY <1>12 DEF LoginRefused
<1>13. CASE OnRspUserLogout BY <1>13 DEF OnRspUserLogout, Called
<1>14. CASE UNCHANGED vars BY <1>14 DEF vars
<1>15. QED
  BY <1>1, <1>2, <1>3, <1>4, <1>5, <1>6, <1>7, <1>8, <1>9, <1>10, <1>11, <1>12, <1>13, <1>14
  DEF Next, Listening

(* What is subscribed, by the actions that subscribe or forget. *)
LEMMA SubscribedStep ==
  ASSUME Inv, [Next]_vars PROVE HistorySubscribed' /\ OnlyAskedSubscribed' /\ (subs_tickers \subseteq leftOver)'
<1> USE DEF Inv, FlagsHonest, Opening, HistorySubscribed, OnlyAskedSubscribed,
        flags, subs, counter, history
<1>1. CASE EngineOpen BY <1>1 DEF EngineOpen, Connect
<1>2. CASE ConnectEnds BY <1>2 DEF ConnectEnds
<1>3. CASE Ask BY <1>3 DEF Ask, Crash
<1>4. CASE LoginEnds BY <1>4 DEF LoginEnds
<1>5. CASE OpenEnds BY <1>5 DEF OpenEnds, PreRun, Subscribe
<1>6. CASE ReleaseApi BY <1>6 DEF ReleaseApi
<1>7. CASE EngineClose BY <1>7 DEF EngineClose, Logout, Crash
<1>8. ASSUME NEW type \in Types, NEW T \in (SUBSET Tickers) \ {{}}, SubscribeBatch(type, T)
      PROVE  HistorySubscribed' /\ OnlyAskedSubscribed' /\ (subs_tickers \subseteq leftOver)'
  BY <1>8 DEF SubscribeBatch, Subscribe, Kept, Crash
<1>9. CASE OnFrontConnected BY <1>9 DEF OnFrontConnected, Called
<1>10. CASE OnFrontDisconnected BY <1>10 DEF OnFrontDisconnected, Disconnected
<1>11. CASE OnRspUserLogin BY <1>11 DEF OnRspUserLogin, Called
<1>12. CASE LoginRefused BY <1>12 DEF LoginRefused
<1>13. CASE OnRspUserLogout BY <1>13 DEF OnRspUserLogout, Called
<1>14. CASE UNCHANGED vars BY <1>14 DEF vars
<1>15. QED
  BY <1>1, <1>2, <1>3, <1>4, <1>5, <1>6, <1>7, <1>8, <1>9, <1>10, <1>11, <1>12, <1>13, <1>14
  DEF Next, Listening

(* Three actions call the counter; without an api the flags would have to be set. *)
LEMMA CallStep == ASSUME FlagsHonest, NoNullCall, [Next]_vars PROVE NoNullCall'
<1> USE DEF FlagsHonest, NoNullCall, flags, subs, counter, history
<1>1. CASE EngineOpen BY <1>1 DEF EngineOpen, Connect
<1>2. CASE ConnectEnds BY <1>2 DEF ConnectEnds
<1>3. CASE Ask BY <1>3 DEF Ask, Crash
<1>4. CASE LoginEnds BY <1>4 DEF LoginEnds
<1>5. CASE OpenEnds BY <1>5 DEF OpenEnds
<1>6. CASE ReleaseApi BY <1>6 DEF ReleaseApi
<1>7. CASE EngineClose BY <1>7 DEF EngineClose, Crash
<1>8. ASSUME NEW type \in Types, NEW T \in (SUBSET Tickers) \ {{}}, SubscribeBatch(type, T)
      PROVE  NoNullCall'
  BY <1>8 DEF SubscribeBatch, Crash
<1>9. CASE OnFrontConnected BY <1>9 DEF OnFrontConnected, Called
<1>10. CASE OnFrontDisconnected BY <1>10 DEF OnFrontDisconnected
<1>11. CASE OnRspUserLogin BY <1>11 DEF OnRspUserLogin, Called
<1>12. CASE LoginRefused BY <1>12 DEF LoginRefused
<1>13. CASE OnRspUserLogout BY <1>13 DEF OnRspUserLogout, Called
<1>14. CASE UNCHANGED vars BY <1>14 DEF vars
<1>15. QED
  BY <1>1, <1>2, <1>3, <1>4, <1>5, <1>6, <1>7, <1>8, <1>9, <1>10, <1>11, <1>12, <1>13, <1>14
  DEF Next, Listening

LEMMA Invariance == Spec => []Inv
<1>1. Init => Inv
  BY DEF Init, Inv, FlagsHonest, Opening, HistorySubscribed, OnlyAskedSubscribed, NoNullCall
<1>2. Inv /\ [Next]_vars => Inv'
  BY FlagsStep, SubscribedStep, CallStep DEF Inv
<1>3. QED
  BY <1>1, <1>2, PTL DEF Spec

(* The engine at rest has its history subscribed, unless its login came late. *)
THEOREM HistoryIsSubscribed == Spec => []HistorySubscribed
<1>1. Inv => HistorySubscribed
  BY DEF Inv
<1>2. QED
  BY <1>1, Invariance, PTL

(* Only tickers of batches that ended while it was logged out get subscribed under another type. *)
THEOREM NothingElseSubscribed == Spec => []OnlyAskedSubscribed
<1>1. Inv => OnlyAskedSubscribed
  BY DEF Inv
<1>2. QED
  BY <1>1, Invariance, PTL

(* The counter is never called through a null api, unless a callback came in the middle of a close. *)
THEOREM NullIsNotCalled == Spec => []NoNullCall
<1>1. Inv => NoNullCall
  BY DEF Inv
<1>2. QED
  BY <1>1, Invariance, PTL
=============================================================================
