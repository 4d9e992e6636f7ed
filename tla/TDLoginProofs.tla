---------------------------- MODULE TDLoginProofs ----------------------------
(***************************************************************************)
(* Proofs about TDLogin, for any number of accounts and any steps: what    *)
(* the engine holds for logged in and settled has a session, and its order *)
(* references are new to the counter.                                      *)
(*                                                                         *)
(* A settlement is flagged when its answer arrives, so the first invariant *)
(* also speaks of answers on their way: but in the middle of a release,    *)
(* they are answers of a session; and an account that is released has no   *)
(* more answers and no flags.  The second one follows the answers to       *)
(* logins, in the order they come, to the callback that moves local_id on. *)
(***************************************************************************)
EXTENDS TDLogin, TLAPS

StepNames == {"auth", "login", "settle"}
AnswerType == [step : StepNames, fresh : BOOLEAN, ref : Int]
Call == [at : {"none", "read", "write"}, ref : Int, seen : Int]
PcNames == {"idle", "connect", "connected", "login", "release"}

Typed ==
  /\ pc \in PcNames /\ idx \in Accounts /\ step \in 1 .. 3
  /\ maxRef \in [Accounts -> Int] /\ local_id \in Int
  /\ cb \in [Accounts -> Call]
  /\ done \in [Accounts -> SUBSET StepNames]
  /\ session \in [Accounts -> {"none", "open", "known"}]
  /\ answers \in [Accounts -> Seq(AnswerType)]

(* An answer about a settlement is on its way to the account. *)
Settling(s) == \E k \in DOMAIN s : s[k].step = "settle"

AnswersOfSession ==
  /\ \A u \in Accounts : Settling(answers[u]) => session[u] # "none" \/ pc = "release"
  /\ pc = "release" => \A u \in 1 .. idx - 1 : answers[u] = <<>> /\ done[u] = {}

Inv == Typed /\ FlagsAreSession /\ AnswersOfSession

-----------------------------------------------------------------------------
(* Sequences of answers.                                                   *)

LEMMA TailSettling ==
  ASSUME NEW s \in Seq(AnswerType), s # <<>>
  PROVE  /\ Tail(s) \in Seq(AnswerType) /\ Head(s) \in AnswerType
         /\ Settling(Tail(s)) => Settling(s)
         /\ Head(s).step = "settle" => Settling(s)
<1>1. Len(s) \in Nat /\ Len(s) > 0 /\ DOMAIN s = 1 .. Len(s)
  OBVIOUS
<1>2. Tail(s) \in Seq(AnswerType) /\ Head(s) \in AnswerType
  OBVIOUS
<1>3. ASSUME NEW k \in DOMAIN Tail(s) PROVE k + 1 \in DOMAIN s /\ Tail(s)[k] = s[k + 1]
  BY <1>1
<1>4. Head(s) = s[1] /\ 1 \in DOMAIN s
  BY <1>1
<1>5. QED
  BY <1>2, <1>3, <1>4 DEF Settling

(* A request outdates answers, and adds one of its own. *)
LEMMA OutdateSettling ==
  ASSUME Typed, NEW u \in Accounts, NEW s \in StepNames
  PROVE  /\ Outdate(u, s) \in Seq(AnswerType)
         /\ Settling(Outdate(u, s)) => Settling(answers[u])
<1>1. answers[u] \in Seq(AnswerType)
  BY DEF Typed
<1>2. DOMAIN Outdate(u, s) = 1 .. Len(answers[u]) /\ Len(answers[u]) \in Nat
  BY <1>1 DEF Outdate
<1>3. ASSUME NEW k \in 1 .. Len(answers[u])
      PROVE  Outdate(u, s)[k] \in AnswerType /\ Outdate(u, s)[k].step = answers[u][k].step
  <2>1. answers[u][k] \in AnswerType
    BY <1>1
  <2>2. Outdate(u, s)[k] = IF answers[u][k].step = s THEN [answers[u][k] EXCEPT !.fresh = FALSE] ELSE answers[u][k]
    BY <1>1, <1>2 DEF Outdate
  <2>3. QED
    BY <2>1, <2>2 DEF AnswerType
<1>4. Outdate(u, s) \in Seq(AnswerType)
  <2>1. Outdate(u, s) = [k \in 1 .. Len(answers[u]) |-> Outdate(u, s)[k]]
    BY <1>1 DEF Outdate
  <2>2. PICK n \in Nat : n = Len(answers[u])
    BY <1>2
  <2>3. \A k \in 1 .. n : Outdate(u, s)[k] \in AnswerType
    BY <1>3, <2>2
  <2>4. Outdate(u, s) = [k \in 1 .. n |-> Outdate(u, s)[k]]
    BY <2>1, <2>2
  <2>5. QED
    BY ONLY <2>3, <2>4, n \in Nat
<1>5. QED
  BY <1>1, <1>2, <1>3, <1>4 DEF Settling

LEMMA RequestSettling ==
  ASSUME Typed, NEW u \in Accounts, NEW s \in StepNames
  PROVE  LET new == Outdate(u, s) \o Answer(u, s) IN
           /\ new \in Seq(AnswerType)
           /\ Settling(new) => Settling(answers[u]) \/ (s = "settle" /\ session[u] # "none")
<1> DEFINE old == Outdate(u, s)
           own == Answer(u, s)
<1>1. old \in Seq(AnswerType) /\ (Settling(old) => Settling(answers[u]))
  BY OutdateSettling
<1>2. own \in Seq(AnswerType)
  <2>1. maxRef[u] + 1 \in Int
    BY DEF Typed
  <2>2. [step |-> s, fresh |-> TRUE, ref |-> maxRef[u] + 1] \in AnswerType
    BY <2>1 DEF AnswerType
  <2> DEFINE r == [step |-> s, fresh |-> TRUE, ref |-> maxRef[u] + 1]
  <2>3. own = <<>> \/ own = <<r>>
    BY DEF Answer
  <2>4. r \in AnswerType
    BY <2>2
  <2> HIDE DEF r, own
  <2>5. <<r>> \in Seq(AnswerType)
    BY <2>4
  <2>6. <<>> \in Seq(AnswerType)
    OBVIOUS
  <2>7. QED
    BY <2>3, <2>5, <2>6 DEF own, r
<1>3. ASSUME NEW k \in DOMAIN own, own[k].step = "settle" PROVE s = "settle" /\ session[u] # "none"
  BY <1>3 DEF Answer
<1> HIDE DEF old, own
<1>4. old \o own \in Seq(AnswerType)
  BY <1>1, <1>2
<1>5. ASSUME NEW k \in DOMAIN (old \o own)
      PROVE  \/ k \in DOMAIN old /\ (old \o own)[k] = old[k]
             \/ k - Len(old) \in DOMAIN own /\ (old \o own)[k] = own[k - Len(old)]
  BY <1>1, <1>2
<1>6. Settling(old \o own) => Settling(answers[u]) \/ (s = "settle" /\ session[u] # "none")
  BY <1>1, <1>3, <1>5 DEF Settling
<1>7. QED
  BY <1>4, <1>6 DEF old, own

-----------------------------------------------------------------------------
(* The steps.                                                              *)

(* A step of the listening thread that touches no flag, session or answer. *)
LEMMA Quiet ==
  ASSUME Inv, Typed', UNCHANGED <<done, session, answers>>,
         \/ pc # "release" /\ pc' # "release"
         \/ UNCHANGED <<pc, idx>>
  PROVE  Inv'
<1>1. FlagsAreSession'
  BY DEF Inv, FlagsAreSession
<1>2. AnswersOfSession'
  BY DEF Inv, AnswersOfSession, Settling
<1>3. QED
  BY <1>1, <1>2 DEF Inv

LEMMA InitInv == Init => Inv
<1> SUFFICES ASSUME Init PROVE Inv
  OBVIOUS
<1> USE TDLoginAssumption DEF Init, Fresh, All, NoCall
<1>1. <<>> \in Seq(AnswerType)
  OBVIOUS
<1>2. Typed
  BY <1>1 DEF Typed, Accounts, PcNames, Call
<1>3. FlagsAreSession /\ AnswersOfSession
  BY DEF FlagsAreSession, AnswersOfSession, Settling
<1>4. QED
  BY <1>2, <1>3 DEF Inv

LEMMA NextStepTyped ==
  ASSUME idx \in Accounts, step \in 1 .. 3, NextStep
  PROVE  pc' \in PcNames /\ pc' # "release" /\ idx' \in Accounts /\ step' \in 1 .. 3
BY TDLoginAssumption DEF NextStep, At, PcNames, Accounts

LEMMA ListeningKeeps == ASSUME Inv, EngineOpen \/ Connect \/ ConnectEnds \/ TryLogin \/ StepEnds PROVE Inv'
<1>1. UNCHANGED <<done, session, answers, maxRef, local_id, cb>>
  BY DEF EngineOpen, Connect, ConnectEnds, TryLogin, StepEnds, engine, counter
<1>2. pc # "release" /\ pc' \in PcNames /\ pc' # "release" /\ idx' \in Accounts /\ step' \in 1 .. 3
  <2>1. idx \in Accounts /\ step \in 1 .. 3
    BY DEF Inv, Typed
  <2>2. CASE EngineOpen \/ TryLogin
    BY <2>2, TDLoginAssumption DEF EngineOpen, TryLogin, At, PcNames, Accounts
  <2>3. CASE Connect \/ ConnectEnds
    <3>1. NextAccount \/ UNCHANGED <<pc, idx, step>>
      BY <2>3 DEF Connect, ConnectEnds
    <3>2. pc = "connect"
      BY <2>3 DEF Connect, ConnectEnds
    <3>3. QED
      BY <2>1, <3>1, <3>2, TDLoginAssumption DEF NextAccount, At, PcNames, Accounts
  <2>4. CASE StepEnds
    <3>1. NextStep /\ pc = "login"
      BY <2>4 DEF StepEnds
    <3>2. QED
      BY <2>1, <3>1, NextStepTyped
  <2>5. QED
    BY <2>2, <2>3, <2>4
<1>3. Typed'
  BY <1>1, <1>2 DEF Inv, Typed
<1>4. QED
  BY <1>1, <1>2, <1>3, Quiet

LEMMA AskKeeps == ASSUME Inv, Ask PROVE Inv'
<1> DEFINE s == Steps[step]
<1>1. s \in StepNames
  BY DEF Inv, Typed, Steps, StepNames
<1>2. pc = "login" /\ pc' \in PcNames /\ pc' # "release" /\ idx' \in Accounts /\ step' \in 1 .. 3 /\ idx \in Accounts
  <2>1. pc = "login" /\ idx \in Accounts /\ step \in 1 .. 3
    BY DEF Inv, Typed, Ask
  <2>2. NextStep \/ UNCHANGED <<pc, idx, step>>
    BY DEF Ask
  <2>3. QED
    BY <2>1, <2>2, NextStepTyped DEF PcNames
<1>3. UNCHANGED <<done, maxRef, local_id, cb>>
  BY DEF Ask, engine
<1>4. CASE s \in Needed \ done[idx] /\ Request(idx, s)
  <2> DEFINE u == idx
             new == Outdate(u, s) \o Answer(u, s)
  <2>1. u \in Accounts /\ Typed
    BY <1>2 DEF Inv
  <2>2. /\ Outdate(u, s) \in Seq(AnswerType)
        /\ Settling(Outdate(u, s)) => Settling(answers[u])
    BY <1>1, <2>1, OutdateSettling
  <2>3. /\ new \in Seq(AnswerType)
        /\ Settling(new) => Settling(answers[u]) \/ (s = "settle" /\ session[u] # "none")
    BY <1>1, <2>1, RequestSettling
  <2>4. PICK q \in Seq(AnswerType) :
          /\ answers' = [answers EXCEPT ![u] = q]
          /\ Settling(q) => session[u] # "none"
    <3>1. Settling(answers[u]) => session[u] # "none"
      BY <1>2, <2>1 DEF Inv, AnswersOfSession
    <3>2. answers' = [answers EXCEPT ![u] = new] \/ answers' = [answers EXCEPT ![u] = Outdate(u, s)]
      BY <1>4 DEF Request
    <3> HIDE DEF new
    <3>3. QED
      BY <2>2, <2>3, <3>1, <3>2
  <2>5. session' = session \/ (s = "login" /\ session' = [session EXCEPT ![u] = "open"])
    BY <1>4 DEF Request
  <2> HIDE DEF s, u, new
  <2>6. Typed'
    BY <1>2, <1>3, <2>1, <2>4, <2>5 DEF Typed
  <2>7. "login" \in done[u] => session' = session
    BY <1>4, <2>5 DEF u
  <2>8. \A v \in Accounts : session[v] # "none" => session'[v] # "none"
    BY <2>1, <2>5 DEF Typed
  <2>9. FlagsAreSession'
    BY <1>2, <1>3, <2>1, <2>5, <2>7, <2>8 DEF Inv, Typed, FlagsAreSession
  <2>10. AnswersOfSession'
    <3>1. ASSUME NEW v \in Accounts, Settling(answers'[v]) PROVE session'[v] # "none"
      <4>1. CASE v = u
        BY <2>1, <2>4, <2>8, <3>1, <4>1 DEF Typed
      <4>2. CASE v # u
        BY <1>2, <2>1, <2>4, <2>8, <3>1, <4>2 DEF Typed, Inv, AnswersOfSession
      <4>3. QED
        BY <4>1, <4>2
    <3>2. QED
      BY <1>2, <3>1 DEF AnswersOfSession, Settling
  <2>11. QED
    BY <2>6, <2>9, <2>10 DEF Inv
<1>5. CASE UNCHANGED <<answers, session>>
  <2>1. Typed'
    BY <1>2, <1>3, <1>5 DEF Inv, Typed
  <2>2. QED
    BY <1>2, <1>3, <1>5, <2>1, Quiet
<1>6. QED
  BY <1>4, <1>5 DEF Ask

LEMMA CloseKeeps == ASSUME Inv, EngineClose PROVE Inv'
<1>1. pc' = "release" /\ idx' = 1 /\ step' = 1 /\ done' = [u \in Accounts |-> {}]
  BY DEF EngineClose, At, All
<1>2. UNCHANGED <<maxRef, local_id, cb>>
  BY DEF EngineClose
<1>3. ASSUME NEW u \in Accounts PROVE Outdate(u, "login") \in Seq(AnswerType) /\ answers[u] \in Seq(AnswerType)
  BY OutdateSettling DEF Inv, Typed, StepNames
<1>4. answers' \in [Accounts -> Seq(AnswerType)]
  BY <1>3 DEF EngineClose
<1>5. session' \in [Accounts -> {"none", "open", "known"}]
  BY DEF EngineClose, Inv, Typed
<1>6. Typed'
  BY <1>1, <1>2, <1>4, <1>5, TDLoginAssumption DEF Inv, Typed, PcNames, Accounts
<1>7. FlagsAreSession' /\ AnswersOfSession'
  BY <1>1 DEF FlagsAreSession, AnswersOfSession, Settling
<1>8. QED
  BY <1>6, <1>7 DEF Inv

LEMMA ReleaseKeeps == ASSUME Inv, ReleaseApi PROVE Inv'
<1> USE DEF Inv
<1>1. /\ idx \in Accounts /\ pc = "release"
      /\ done' = [done EXCEPT ![idx] = {}]
      /\ session' = [session EXCEPT ![idx] = "none"]
      /\ answers' = [answers EXCEPT ![idx] = <<>>]
      /\ UNCHANGED <<maxRef, local_id>>
  BY DEF ReleaseApi, Typed
<1>2. \/ idx < N /\ pc' = "release" /\ idx' = idx + 1 /\ step' = 1
      \/ idx = N /\ pc' = "idle" /\ idx' = 1 /\ step' = 1
  BY <1>1, TDLoginAssumption DEF ReleaseApi, At, Accounts
<1>3. <<>> \in Seq(AnswerType)
  OBVIOUS
<1>4. cb' \in [Accounts -> Call]
  BY DEF ReleaseApi, Typed, NoCall, Call
<1>5. Typed'
  BY <1>1, <1>2, <1>3, <1>4, TDLoginAssumption DEF Typed, PcNames, Accounts
<1>6. \A u \in 1 .. idx : answers'[u] = <<>> /\ done'[u] = {}
  BY <1>1, TDLoginAssumption DEF Typed, Accounts, AnswersOfSession
<1>7. FlagsAreSession'
  BY <1>1, <1>2, <1>6, TDLoginAssumption DEF Typed, Accounts, FlagsAreSession
<1>8. AnswersOfSession'
  <2>1. CASE pc' = "release"
    BY <1>1, <1>2, <1>6, <2>1, TDLoginAssumption DEF Accounts, AnswersOfSession
  <2>2. CASE pc' = "idle"
    <3>1. \A u \in Accounts : answers'[u] = <<>>
      BY <1>2, <1>6, <2>2 DEF Accounts
    <3>2. QED
      BY <2>2, <3>1 DEF AnswersOfSession, Settling
  <2>3. QED
    BY <1>2, <2>1, <2>2
<1>9. QED
  BY <1>5, <1>7, <1>8

LEMMA RestartKeeps == ASSUME Inv, Restart PROVE Inv'
<1> USE TDLoginAssumption DEF All, NoCall
<1>1. <<>> \in Seq(AnswerType)
  OBVIOUS
<1>2. Typed'
  BY <1>1 DEF Inv, Typed, Restart, Accounts, PcNames, Call
<1>3. FlagsAreSession' /\ AnswersOfSession'
  BY DEF Restart, FlagsAreSession, AnswersOfSession, Settling
<1>4. QED
  BY <1>2, <1>3 DEF Inv

LEMMA DisconnectKeeps == ASSUME Inv, NEW u \in Accounts, OnFrontDisconnected(u) PROVE Inv'
<1> USE DEF OnFrontDisconnected, DoneReset, All, Position
<1>1. <<>> \in Seq(AnswerType)
  OBVIOUS
<1>2. Typed'
  BY <1>1 DEF Inv, Typed
<1>3. FlagsAreSession'
  BY DEF FlagsAreSession
<1>4. AnswersOfSession'
  <2>1. ASSUME NEW v \in Accounts PROVE Settling(answers'[v]) => session'[v] # "none" \/ pc' = "release"
    <3>1. CASE v = u
      BY <3>1 DEF Inv, Typed, Settling
    <3>2. CASE v # u
      BY <3>2 DEF Inv, Typed, AnswersOfSession
    <3>3. QED
      BY <3>1, <3>2
  <2>2. pc' = "release" => \A v \in 1 .. idx' - 1 : answers'[v] = <<>> /\ done'[v] = {}
    <3>1. SUFFICES ASSUME pc' = "release", NEW v \in 1 .. idx' - 1 PROVE answers'[v] = <<>> /\ done'[v] = {}
      OBVIOUS
    <3>2. v \in Accounts
      BY <3>1, TDLoginAssumption DEF Inv, Typed, Accounts
    <3>3. QED
      BY <3>1, <3>2 DEF Inv, Typed, AnswersOfSession
  <2>3. QED
    BY <2>1, <2>2 DEF AnswersOfSession, Settling
<1>5. QED
  BY <1>2, <1>3, <1>4 DEF Inv

LEMMA AnswerKeeps == ASSUME Inv, NEW u \in Accounts, OnRsp(u) PROVE Inv'
<1> DEFINE a == Head(answers[u])
           rest == Tail(answers[u])
<1>1. answers[u] \in Seq(AnswerType) /\ answers[u] # <<>>
  BY DEF Inv, Typed, OnRsp
<1>2. /\ rest \in Seq(AnswerType) /\ a \in AnswerType
      /\ Settling(rest) => Settling(answers[u])
      /\ a.step = "settle" => Settling(answers[u])
  BY <1>1, TailSettling
<1>3. /\ answers' = [answers EXCEPT ![u] = rest]
      /\ done' = IF a.fresh THEN [done EXCEPT ![u] = @ \cup {a.step}] ELSE done
      /\ session' = IF a.fresh /\ a.step = "login" THEN [session EXCEPT ![u] = "known"] ELSE session
      /\ cb' = IF a.step = "login" THEN [cb EXCEPT ![u] = [at |-> "read", ref |-> a.ref, seen |-> 0]] ELSE cb
      /\ UNCHANGED <<pc, idx, step, maxRef, local_id>>
  BY DEF OnRsp, Position
<1> HIDE DEF a, rest
<1>4. a.step \in StepNames /\ a.ref \in Int
  BY <1>2 DEF AnswerType
<1>5. Typed'
  <2>1. cb' \in [Accounts -> Call]
    BY <1>3, <1>4 DEF Inv, Typed, Call
  <2>2. QED
    BY <1>2, <1>3, <1>4, <2>1 DEF Inv, Typed
<1>6. \A v \in Accounts : session[v] # "none" => session'[v] # "none"
  BY <1>3 DEF Inv, Typed
<1>7. \A v \in Accounts \ {u} : answers'[v] = answers[v] /\ done'[v] = done[v] /\ session'[v] = session[v]
  BY <1>3 DEF Inv, Typed
<1>8. pc = "release" => u \notin 1 .. idx - 1
  BY <1>1 DEF Inv, AnswersOfSession
<1>9. FlagsAreSession'
  <2>1. "login" \in done'[u] => session'[u] = "known"
    BY <1>3 DEF Inv, Typed, FlagsAreSession
  <2>2. "settle" \in done'[u] => session'[u] # "none" \/ pc = "release"
    BY <1>2, <1>3, <1>6 DEF Inv, Typed, FlagsAreSession, AnswersOfSession
  <2>3. QED
    BY <1>3, <1>7, <2>1, <2>2 DEF Inv, FlagsAreSession
<1>10. AnswersOfSession'
  <2>1. Settling(answers'[u]) => Settling(answers[u])
    BY <1>2, <1>3 DEF Inv, Typed
  <2>2. \A v \in Accounts : Settling(answers'[v]) => session'[v] # "none" \/ pc = "release"
    BY <1>6, <1>7, <2>1 DEF Inv, AnswersOfSession
  <2>3. pc = "release" => \A v \in 1 .. idx - 1 : answers'[v] = <<>> /\ done'[v] = {}
    <3>1. SUFFICES ASSUME pc = "release", NEW v \in 1 .. idx - 1 PROVE answers'[v] = <<>> /\ done'[v] = {}
      OBVIOUS
    <3>2. v \in Accounts \ {u}
      BY <1>8, <3>1, TDLoginAssumption DEF Inv, Typed, Accounts
    <3>3. QED
      BY <1>7, <3>1, <3>2 DEF Inv, AnswersOfSession
  <2>4. QED
    BY <1>3, <2>2, <2>3 DEF AnswersOfSession, Settling
<1>11. QED
  BY <1>5, <1>9, <1>10 DEF Inv

(* Callbacks that touch no flag, and orders. *)
LEMMA OtherKeeps ==
  ASSUME Inv, NEW u \in Accounts,
         OnFrontConnected(u) \/ ReadLocalId(u) \/ WriteLocalId(u) \/ OrderInsert(u)
  PROVE  Inv'
<1>1. UNCHANGED <<pc, idx, step, done, session, answers>>
  BY DEF OnFrontConnected, ReadLocalId, WriteLocalId, OrderInsert, Position, counter
<1>2. local_id' \in Int /\ maxRef' \in [Accounts -> Int]
      /\ cb' \in [Accounts -> Call]
  <2>1. local_id \in Int /\ maxRef \in [Accounts -> Int] /\ cb \in [Accounts -> Call] /\ cb[u] \in Call
    BY DEF Inv, Typed
  <2>2. CASE OnFrontConnected(u)
    BY <2>1, <2>2 DEF OnFrontConnected
  <2>3. CASE ReadLocalId(u)
    BY <2>1, <2>3 DEF ReadLocalId, counter, Call
  <2>4. CASE WriteLocalId(u)
    BY <2>1, <2>4 DEF WriteLocalId, LocalId, Larger, counter, NoCall, Call
  <2>5. CASE OrderInsert(u)
    BY <2>1, <2>5 DEF OrderInsert, Larger
  <2>6. QED
    BY <2>2, <2>3, <2>4, <2>5
<1>3. Typed'
  BY <1>1, <1>2 DEF Inv, Typed
<1>4. QED
  BY <1>1, <1>3, Quiet

LEMMA NextKeeps == Inv /\ [Next]_vars => Inv'
<1> SUFFICES ASSUME Inv, [Next]_vars PROVE Inv'
  OBVIOUS
<1>1. CASE Ask
  BY <1>1, AskKeeps
<1>2. CASE EngineOpen \/ Connect \/ ConnectEnds \/ TryLogin \/ StepEnds
  BY <1>2, ListeningKeeps
<1>3. CASE ReleaseApi
  BY <1>3, ReleaseKeeps
<1>4. CASE EngineClose
  BY <1>4, CloseKeeps
<1>5. CASE Restart
  BY <1>5, RestartKeeps
<1>6. CASE \E u \in Accounts : OnFrontDisconnected(u)
  BY <1>6, DisconnectKeeps
<1>7. CASE \E u \in Accounts : OnRsp(u)
  BY <1>7, AnswerKeeps
<1>8. CASE \E u \in Accounts : OnFrontConnected(u) \/ ReadLocalId(u) \/ WriteLocalId(u) \/ OrderInsert(u)
  BY <1>8, OtherKeeps
<1>9. CASE UNCHANGED vars
  <2>1. UNCHANGED <<pc, idx, step, done, session, answers, maxRef, local_id, cb>>
    BY <1>9 DEF vars, engine, counter
  <2>2. Typed'
    BY <2>1 DEF Inv, Typed
  <2>3. QED
    BY <2>1, <2>2, Quiet
<1>10. QED
  BY <1>1, <1>2, <1>3, <1>4, <1>5, <1>6, <1>7, <1>8, <1>9 DEF Next, Listening, Callback

(***************************************************************************)
(* For any number of accounts and any steps, disconnects, closes and       *)
(* restarts: what is flagged as logged in has the counter's latest         *)
(* session, and what is flagged as settled has a session, or is about to   *)
(* be released (TDEngineCTP's callbacks against its login).                *)
(***************************************************************************)
THEOREM FlagsHaveSessions == Spec => []FlagsAreSession
<1>1. Inv => FlagsAreSession
  BY DEF Inv
<1>2. QED
  BY <1>1, InitInv, NextKeeps, PTL DEF Spec

-----------------------------------------------------------------------------
(* Which references the counter has seen.                                  *)

IsLogin(s, k) == k \in DOMAIN s /\ s[k].step = "login"

(* Login answers on their way to an account with these flags, whose largest reference is max: *)
(* only the last one may be fresh, and it tells a larger reference.                           *)
InOrder(s, flags, max) ==
  \A k \in DOMAIN s : IsLogin(s, k) =>
    /\ "login" \notin flags
    /\ s[k].fresh => s[k].ref > max /\ \A j \in DOMAIN s : j > k => ~IsLogin(s, j)

LoginAnswers == \A u \in Accounts : InOrder(answers[u], done[u], maxRef[u])

(* A settled account is logged in, and its callback over; only one callback moves local_id. *)
Undisturbed ==
  /\ \A u \in Accounts : "settle" \in done[u] => "login" \in done[u] /\ Free(u)
  /\ \A u, v \in Accounts : ~Free(u) /\ ~Free(v) => u = v
  /\ \A u \in Accounts : cb[u].at = "write" => cb[u].seen = local_id
  /\ \A u \in Accounts : "login" \in done[u] => IF Free(u) THEN local_id > maxRef[u] ELSE cb[u].ref > maxRef[u]
  /\ ~stale

Careful == "settle" \in Needed /\ ~disturbed
RefsInv == /\ LoginAnswers /\ (Careful => Undisturbed)
           /\ stale \in BOOLEAN /\ disturbed \in BOOLEAN

LEMMA EmptyInOrder == ASSUME NEW flags, NEW max PROVE InOrder(<<>>, flags, max)
BY DEF InOrder

LEMMA TailInOrder ==
  ASSUME NEW s \in Seq(AnswerType), s # <<>>, NEW flags, NEW max, InOrder(s, flags, max)
  PROVE  /\ InOrder(Tail(s), flags, max)
         /\ Head(s).step = "login" => "login" \notin flags
         /\ Head(s).step = "login" /\ Head(s).fresh => Head(s).ref > max /\ \A all : InOrder(Tail(s), all, max)
<1>1. /\ Len(s) \in Nat \ {0} /\ DOMAIN s = 1 .. Len(s) /\ DOMAIN Tail(s) = 1 .. Len(s) - 1 /\ Head(s) = s[1]
      /\ \A k \in 1 .. Len(s) - 1 : k + 1 \in 1 .. Len(s) /\ Tail(s)[k] = s[k + 1]
  OBVIOUS
<1>2. InOrder(Tail(s), flags, max)
  <2>1. ASSUME NEW k \in DOMAIN Tail(s), IsLogin(Tail(s), k)
        PROVE  /\ "login" \notin flags
               /\ Tail(s)[k].fresh =>
                    Tail(s)[k].ref > max /\ \A j \in DOMAIN Tail(s) : j > k => ~IsLogin(Tail(s), j)
    <3>1. k + 1 \in DOMAIN s /\ IsLogin(s, k + 1) /\ Tail(s)[k] = s[k + 1] /\ k \in Int
      BY <1>1, <2>1 DEF IsLogin
    <3>2. /\ "login" \notin flags
          /\ s[k + 1].fresh => s[k + 1].ref > max /\ \A j \in DOMAIN s : j > k + 1 => ~IsLogin(s, j)
      BY <3>1 DEF InOrder
    <3>3. \A j \in DOMAIN Tail(s) : j \in Int /\ j + 1 \in DOMAIN s /\ (IsLogin(Tail(s), j) => IsLogin(s, j + 1))
      BY <1>1 DEF IsLogin
    <3>4. ASSUME s[k + 1].fresh, NEW j \in DOMAIN Tail(s), j > k PROVE ~IsLogin(Tail(s), j)
      <4>1. j + 1 > k + 1
        BY <3>1, <3>3, <3>4
      <4>2. QED
        BY <3>2, <3>3, <3>4, <4>1
    <3>5. QED
      BY <3>1, <3>2, <3>4
  <2>2. QED
    BY <2>1 DEF InOrder
<1>3. ASSUME Head(s).step = "login"
      PROVE  /\ "login" \notin flags
             /\ Head(s).fresh => Head(s).ref > max /\ \A j \in DOMAIN s : j > 1 => ~IsLogin(s, j)
  BY <1>1, <1>3 DEF InOrder, IsLogin
<1>4. ASSUME \A j \in DOMAIN s : j > 1 => ~IsLogin(s, j), NEW all PROVE InOrder(Tail(s), all, max)
  <2>1. ASSUME NEW k \in DOMAIN Tail(s) PROVE ~IsLogin(Tail(s), k)
    <3>1. k + 1 \in DOMAIN s /\ k + 1 > 1 /\ Tail(s)[k] = s[k + 1]
      BY <1>1
    <3>2. QED
      BY <1>4, <3>1 DEF IsLogin
  <2>2. QED
    BY <2>1 DEF InOrder
<1>5. QED
  BY <1>2, <1>3, <1>4

(* Outdated answers stay in order, and a new answer follows them. *)
LEMMA OutdatedAnswers ==
  ASSUME Typed, NEW u \in Accounts, NEW s \in StepNames
  PROVE  /\ Outdate(u, s) \in Seq(AnswerType) /\ Len(Outdate(u, s)) = Len(answers[u])
         /\ DOMAIN Outdate(u, s) = DOMAIN answers[u]
         /\ \A k \in DOMAIN answers[u] :
              /\ Outdate(u, s)[k].step = answers[u][k].step /\ Outdate(u, s)[k].ref = answers[u][k].ref
              /\ Outdate(u, s)[k].fresh => answers[u][k].fresh /\ answers[u][k].step # s
<1>1. answers[u] \in Seq(AnswerType) /\ Outdate(u, s) \in Seq(AnswerType)
  BY OutdateSettling DEF Typed
<1>2. DOMAIN Outdate(u, s) = DOMAIN answers[u] /\ Len(Outdate(u, s)) = Len(answers[u])
  BY <1>1 DEF Outdate
<1>3. ASSUME NEW k \in DOMAIN answers[u]
      PROVE  /\ Outdate(u, s)[k].step = answers[u][k].step /\ Outdate(u, s)[k].ref = answers[u][k].ref
             /\ Outdate(u, s)[k].fresh => answers[u][k].fresh /\ answers[u][k].step # s
  <2>1. answers[u][k] \in AnswerType
    BY <1>1
  <2>2. Outdate(u, s)[k] = IF answers[u][k].step = s THEN [answers[u][k] EXCEPT !.fresh = FALSE] ELSE answers[u][k]
    BY DEF Outdate
  <2>3. QED
    BY <2>1, <2>2 DEF AnswerType
<1>4. QED
  BY <1>1, <1>2, <1>3

LEMMA OutdatedInOrder ==
  ASSUME Typed, NEW u \in Accounts, NEW s \in StepNames, InOrder(answers[u], done[u], maxRef[u])
  PROVE  InOrder(Outdate(u, s), done[u], maxRef[u])
<1> DEFINE old == answers[u]
           new == Outdate(u, s)
<1>1. /\ old \in Seq(AnswerType) /\ new \in Seq(AnswerType) /\ DOMAIN new = DOMAIN old
      /\ \A k \in DOMAIN old : /\ new[k].step = old[k].step /\ new[k].ref = old[k].ref
                               /\ new[k].fresh => old[k].fresh
  <2>1. answers[u] \in Seq(AnswerType)
    BY DEF Typed
  <2>2. QED
    BY <2>1, OutdatedAnswers
<1> HIDE DEF new
<1>2. \A k \in DOMAIN old : IsLogin(new, k) <=> IsLogin(old, k)
  BY <1>1 DEF IsLogin
<1>3. QED
  BY <1>1, <1>2 DEF InOrder, new

LEMMA AnsweredInOrder ==
  ASSUME Typed, NEW u \in Accounts, NEW s \in StepNames, s \notin done[u], InOrder(answers[u], done[u], maxRef[u])
  PROVE  InOrder(Outdate(u, s) \o Answer(u, s), done[u], maxRef[u])
<1> DEFINE old == Outdate(u, s)
           r == [step |-> s, fresh |-> TRUE, ref |-> maxRef[u] + 1]
<1>1. old \in Seq(AnswerType) /\ InOrder(old, done[u], maxRef[u]) /\ Len(old) \in Nat
  BY OutdatedAnswers, OutdatedInOrder
<1>2. \A k \in DOMAIN old : old[k].step = s => ~old[k].fresh
  <2>1. answers[u] \in Seq(AnswerType) /\ Len(old) = Len(answers[u])
    BY OutdatedAnswers DEF Typed
  <2>2. DOMAIN old = DOMAIN answers[u]
    BY <1>1, <2>1
  <2>3. QED
    BY <2>2, OutdatedAnswers
<1>3. maxRef[u] \in Int /\ r.ref > maxRef[u] /\ r.step = s /\ r.ref = maxRef[u] + 1
  BY DEF Typed
<1>4. r \in AnswerType
  BY <1>3 DEF AnswerType
<1>5. Answer(u, s) = <<>> \/ Answer(u, s) = <<r>>
  BY DEF Answer
<1> HIDE DEF old, r
<1>6. old \o <<>> = old
  BY <1>1
<1>7. InOrder(old \o <<r>>, done[u], maxRef[u])
  <2>1. PICK n \in Nat : n = Len(old)
    BY <1>1
  <2>2. /\ DOMAIN (old \o <<r>>) = 1 .. n + 1 /\ DOMAIN old = 1 .. n /\ (old \o <<r>>)[n + 1] = r
        /\ \A k \in 1 .. n : (old \o <<r>>)[k] = old[k]
    <3>1. old \o <<r>> = Append(old, r)
      BY <1>1, <1>4
    <3>2. QED
      BY <1>1, <1>4, <2>1, <3>1
  <2> DEFINE new == old \o <<r>>
  <2> HIDE DEF new
  <2>3. /\ \A k \in 1 .. n + 1 : k \in 1 .. n \/ k = n + 1
        /\ \A k \in 1 .. n : k \in 1 .. n + 1 /\ k # n + 1 /\ (IsLogin(new, k) <=> IsLogin(old, k))
        /\ IsLogin(new, n + 1) => s = "login"
    BY <1>3, <2>1, <2>2 DEF IsLogin, new
  <2>4. ASSUME NEW k \in 1 .. n, IsLogin(new, k)
        PROVE  /\ "login" \notin done[u]
               /\ old[k].fresh => old[k].ref > maxRef[u] /\ \A j \in 1 .. n + 1 : j > k => ~IsLogin(new, j)
    <3>1. /\ "login" \notin done[u] /\ old[k].step = "login"
          /\ old[k].fresh => old[k].ref > maxRef[u] /\ \A j \in 1 .. n : j > k => ~IsLogin(old, j)
      BY <1>1, <2>2, <2>3, <2>4 DEF InOrder, IsLogin
    <3>2. old[k].fresh => s # "login"
      BY <1>2, <2>2, <3>1
    <3>3. QED
      BY <2>3, <3>1, <3>2
  <2>5. ASSUME IsLogin(new, n + 1)
        PROVE  /\ "login" \notin done[u]
               /\ r.ref > maxRef[u] /\ \A j \in 1 .. n + 1 : j > n + 1 => ~IsLogin(new, j)
    BY <1>3, <2>1, <2>3, <2>5
  <2>6. InOrder(new, done[u], maxRef[u])
    BY <2>2, <2>3, <2>4, <2>5 DEF InOrder, new
  <2>7. QED
    BY <2>6 DEF new
<1>8. QED
  BY <1>1, <1>5, <1>6, <1>7 DEF old

LEMMA RefsInit == Init => RefsInv
<1> SUFFICES ASSUME Init PROVE RefsInv
  OBVIOUS
<1> USE DEF Init, Fresh, All, NoCall
<1>1. LoginAnswers
  BY EmptyInOrder DEF LoginAnswers
<1>2. Undisturbed
  BY DEF Undisturbed, Free
<1>3. QED
  BY <1>1, <1>2 DEF RefsInv

(* A step that may take flags back and changes only answers that stay in order. *)
LEMMA RefsKept ==
  ASSUME Typed, RefsInv, UNCHANGED <<maxRef, cb, local_id, stale, disturbed>>,
         UNCHANGED done \/ \A u \in Accounts : done'[u] = {},
         \A u \in Accounts : InOrder(answers'[u], done[u], maxRef[u])
  PROVE  RefsInv'
<1>1. LoginAnswers'
  <2>1. ASSUME NEW u \in Accounts PROVE InOrder(answers'[u], done'[u], maxRef'[u])
    <3>1. InOrder(answers'[u], done[u], maxRef[u]) /\ (done'[u] = done[u] \/ done'[u] = {}) /\ maxRef'[u] = maxRef[u]
      OBVIOUS
    <3>2. QED
      BY <3>1 DEF InOrder
  <2>2. QED
    BY <2>1 DEF LoginAnswers, InOrder, IsLogin
<1>2. Careful' => Careful /\ Undisturbed'
  BY DEF RefsInv, Undisturbed, Careful, Free
<1>3. QED
  BY <1>1, <1>2 DEF RefsInv

LEMMA QuietRefs ==
  ASSUME Typed, RefsInv, \/ EngineOpen \/ Connect \/ ConnectEnds \/ TryLogin \/ StepEnds
                         \/ (\E u \in Accounts : OnFrontConnected(u)) \/ UNCHANGED vars
  PROVE  RefsInv'
<1>1. UNCHANGED <<maxRef, cb, local_id, stale, disturbed, done, answers>>
  BY DEF EngineOpen, Connect, ConnectEnds, TryLogin, StepEnds, OnFrontConnected, engine, counter, vars
<1>2. QED
  BY <1>1, RefsKept DEF RefsInv, LoginAnswers

LEMMA AskRefs == ASSUME Typed, RefsInv, Ask PROVE RefsInv'
<1>1. UNCHANGED <<maxRef, cb, local_id, stale, disturbed, done>>
  BY DEF Ask, engine
<1>2. idx \in Accounts /\ Steps[step] \in StepNames /\ answers \in [Accounts -> Seq(AnswerType)]
  BY DEF Typed, Steps, StepNames
<1>3. CASE UNCHANGED answers
  BY <1>1, <1>3, RefsKept DEF RefsInv, LoginAnswers
<1>4. CASE Steps[step] \in Needed \ done[idx] /\ Request(idx, Steps[step])
  <2>1. PICK q : answers' = [answers EXCEPT ![idx] = q] /\ InOrder(q, done[idx], maxRef[idx])
    <3>1. InOrder(answers[idx], done[idx], maxRef[idx])
      BY <1>2 DEF RefsInv, LoginAnswers
    <3>2. /\ InOrder(Outdate(idx, Steps[step]), done[idx], maxRef[idx])
          /\ InOrder(Outdate(idx, Steps[step]) \o Answer(idx, Steps[step]), done[idx], maxRef[idx])
      BY <1>2, <1>4, <3>1, OutdatedInOrder, AnsweredInOrder
    <3>3. \/ answers' = [answers EXCEPT ![idx] = Outdate(idx, Steps[step])]
          \/ answers' = [answers EXCEPT ![idx] = Outdate(idx, Steps[step]) \o Answer(idx, Steps[step])]
      BY <1>4 DEF Request
    <3>4. QED
      BY <3>2, <3>3
  <2>2. \A u \in Accounts : InOrder(answers'[u], done[u], maxRef[u])
    BY <1>2, <2>1 DEF RefsInv, LoginAnswers
  <2>3. QED
    BY <1>1, <2>2, RefsKept
<1>5. QED
  BY <1>3, <1>4 DEF Ask

LEMMA CloseRefs == ASSUME Typed, RefsInv, EngineClose PROVE RefsInv'
<1>1. UNCHANGED <<maxRef, cb, local_id, stale, disturbed>> /\ \A u \in Accounts : done'[u] = {}
  BY DEF EngineClose, All
<1>2. ASSUME NEW u \in Accounts PROVE InOrder(answers'[u], done[u], maxRef[u])
  <2>1. InOrder(answers[u], done[u], maxRef[u])
    BY DEF RefsInv, LoginAnswers
  <2>2. InOrder(Outdate(u, "login"), done[u], maxRef[u])
    BY <2>1, OutdatedInOrder DEF StepNames
  <2>3. answers'[u] = Outdate(u, "login") \/ answers'[u] = answers[u]
    BY DEF EngineClose
  <2>4. QED
    BY <2>1, <2>2, <2>3
<1>3. QED
  BY <1>1, <1>2, RefsKept

LEMMA DisconnectRefs == ASSUME Typed, RefsInv, NEW u \in Accounts, OnFrontDisconnected(u) PROVE RefsInv'
<1>1. UNCHANGED <<maxRef, cb, local_id, stale, disturbed>> /\ \A v \in Accounts : done'[v] = {}
  BY DEF OnFrontDisconnected, DoneReset, All
<1>2. answers \in [Accounts -> Seq(AnswerType)] /\ answers' = [answers EXCEPT ![u] = <<>>]
  BY DEF OnFrontDisconnected, Typed
<1>3. \A v \in Accounts : InOrder(answers'[v], done[v], maxRef[v])
  BY <1>2, EmptyInOrder DEF RefsInv, LoginAnswers
<1>4. QED
  BY <1>1, <1>3, RefsKept

LEMMA RestartRefs == ASSUME Typed, RefsInv, Restart PROVE RefsInv'
<1> USE DEF Restart, All, NoCall
<1>1. LoginAnswers'
  <2>1. \A u \in Accounts : answers'[u] = <<>>
    OBVIOUS
  <2>2. QED
    BY <2>1 DEF LoginAnswers, InOrder
<1>2. Careful' => Undisturbed'
  BY DEF RefsInv, Undisturbed, Careful, Free
<1>3. QED
  BY <1>1, <1>2 DEF RefsInv

LEMMA ReleaseRefs == ASSUME Typed, RefsInv, ReleaseApi PROVE RefsInv'
<1>1. /\ idx \in Accounts /\ UNCHANGED <<maxRef, local_id, stale, disturbed>>
      /\ done' = [done EXCEPT ![idx] = {}] /\ cb' = [cb EXCEPT ![idx] = NoCall] /\ answers' = [answers EXCEPT ![idx] = <<>>]
  BY DEF Typed, ReleaseApi
<1>2. \A u \in Accounts : \/ u # idx /\ done'[u] = done[u] /\ cb'[u] = cb[u] /\ answers'[u] = answers[u]
                          \/ u = idx /\ done'[u] = {} /\ cb'[u].at = "none" /\ answers'[u] = <<>>
  BY <1>1 DEF Typed, NoCall
<1>3. LoginAnswers'
  <2>1. ASSUME NEW u \in Accounts PROVE InOrder(answers'[u], done'[u], maxRef'[u])
    <3>1. CASE u # idx
      BY <1>1, <1>2, <3>1 DEF RefsInv, LoginAnswers
    <3>2. CASE u = idx
      BY <1>2, <3>2 DEF InOrder
    <3>3. QED
      BY <3>1, <3>2
  <2>2. QED
    BY <2>1 DEF LoginAnswers, InOrder, IsLogin
<1>4. ASSUME Careful, Undisturbed PROVE Undisturbed'
  BY <1>1, <1>2, <1>4 DEF Undisturbed, Free
<1>5. QED
  BY <1>1, <1>3, <1>4 DEF RefsInv, Careful

(* An answer: that of a login moves local_id on, whether it is fresh or not. *)
LEMMA AnswerRefs == ASSUME Typed, RefsInv, NEW u \in Accounts, OnRsp(u) PROVE RefsInv'
<1> DEFINE a == Head(answers[u])
           rest == Tail(answers[u])
<1>1. answers[u] \in Seq(AnswerType) /\ answers[u] # <<>> /\ InOrder(answers[u], done[u], maxRef[u])
  BY DEF RefsInv, LoginAnswers, Typed, OnRsp
<1>2. /\ rest \in Seq(AnswerType) /\ a \in AnswerType /\ InOrder(rest, done[u], maxRef[u])
      /\ a.step = "login" => "login" \notin done[u]
      /\ a.step = "login" /\ a.fresh => a.ref > maxRef[u] /\ \A all : InOrder(rest, all, maxRef[u])
  BY <1>1, TailInOrder, TailSettling
<1>3. /\ answers' = [answers EXCEPT ![u] = rest] /\ Free(u)
      /\ done' = IF a.fresh THEN [done EXCEPT ![u] = @ \cup {a.step}] ELSE done
      /\ cb' = IF a.step = "login" THEN [cb EXCEPT ![u] = [at |-> "read", ref |-> a.ref, seen |-> 0]] ELSE cb
      /\ UNCHANGED <<maxRef, local_id, stale>>
      /\ disturbed' = \/ disturbed
                      \/ a.fresh /\ a.step = "settle" /\ "login" \notin done[u]
                      \/ a.step = "login" /\ \E v \in Accounts : ~Free(v)
  BY DEF OnRsp
<1> HIDE DEF a, rest
<1>4. \A v \in Accounts : v # u => done'[v] = done[v] /\ cb'[v] = cb[v] /\ answers'[v] = answers[v]
  BY <1>3 DEF Typed
<1>5. /\ answers'[u] = rest
      /\ done'[u] = IF a.fresh THEN done[u] \cup {a.step} ELSE done[u]
      /\ cb'[u] = IF a.step = "login" THEN [at |-> "read", ref |-> a.ref, seen |-> 0] ELSE cb[u]
  BY <1>3 DEF Typed
<1>6. LoginAnswers'
  <2>1. InOrder(answers'[u], done'[u], maxRef[u])
    <3>1. CASE a.step = "login" /\ a.fresh
      BY <1>2, <1>5, <3>1
    <3>2. CASE ~(a.step = "login" /\ a.fresh)
      <4>1. "login" \in done'[u] => "login" \in done[u]
        BY <1>5, <3>2
      <4>2. QED
        BY <1>2, <1>5, <4>1 DEF InOrder
    <3>3. QED
      BY <3>1, <3>2
  <2>2. \A v \in Accounts : InOrder(answers'[v], done'[v], maxRef'[v])
    BY <1>3, <1>4, <2>1 DEF RefsInv, LoginAnswers
  <2>3. QED
    BY <2>2 DEF LoginAnswers, InOrder, IsLogin
<1>7. disturbed' \in BOOLEAN
  BY <1>3 DEF RefsInv
<1>8. ASSUME Careful' PROVE Undisturbed'
  <2>1. /\ Undisturbed
        /\ a.fresh /\ a.step = "settle" => "login" \in done[u]
        /\ a.step = "login" => \A v \in Accounts : Free(v)
    BY <1>3, <1>8 DEF RefsInv, Careful
  <2>2. \A v \in Accounts : "settle" \in done'[v] => "login" \in done'[v] /\ Free(v)'
    <3>1. "settle" \in done'[u] => "login" \in done'[u] /\ Free(u)'
      BY <1>2, <1>3, <1>5, <2>1 DEF Undisturbed, Free
    <3>2. QED
      BY <1>4, <2>1, <3>1 DEF Undisturbed, Free
  <2>3. \A v, w \in Accounts : ~Free(v)' /\ ~Free(w)' => v = w
    BY <1>3, <1>4, <2>1 DEF Undisturbed, Free
  <2>4. \A v \in Accounts : cb'[v].at = "write" => cb'[v].seen = local_id'
    BY <1>3, <1>4, <1>5, <2>1 DEF Undisturbed
  <2>5. ASSUME NEW v \in Accounts, "login" \in done'[v]
        PROVE  IF Free(v)' THEN local_id' > maxRef'[v] ELSE cb'[v].ref > maxRef'[v]
    <3>1. CASE v # u
      BY <1>3, <1>4, <2>1, <2>5, <3>1 DEF Undisturbed, Free
    <3>2. CASE v = u /\ a.step # "login"
      BY <1>3, <1>5, <2>1, <2>5, <3>2 DEF Undisturbed, Free
    <3>3. CASE v = u /\ a.step = "login"
      BY <1>2, <1>3, <1>5, <2>5, <3>3 DEF Free
    <3>4. QED
      BY <3>1, <3>2, <3>3
  <2>6. QED
    BY <1>3, <2>1, <2>2, <2>3, <2>4, <2>5 DEF Undisturbed
<1>9. QED
  BY <1>3, <1>6, <1>7, <1>8 DEF RefsInv

(* The two parts of OnRspUserLogin that move local_id on. *)
LEMMA LocalIdRefs == ASSUME Typed, RefsInv, NEW u \in Accounts, ReadLocalId(u) \/ WriteLocalId(u) PROVE RefsInv'
<1>1. UNCHANGED <<done, answers, maxRef, stale, disturbed>>
  BY DEF ReadLocalId, WriteLocalId, counter
<1>2. LoginAnswers'
  BY <1>1 DEF RefsInv, LoginAnswers, InOrder, IsLogin
<1>3. local_id \in Int /\ cb \in [Accounts -> Call] /\ maxRef \in [Accounts -> Int] /\ cb[u].ref \in Int
  BY DEF Typed, Call
<1>4. ASSUME Careful, Undisturbed PROVE Undisturbed'
  <2>1. CASE ReadLocalId(u)
    <3>1. /\ UNCHANGED local_id /\ ~Free(u) /\ \A v \in Accounts : v # u => cb'[v] = cb[v]
          /\ cb'[u].at = "write" /\ cb'[u].seen = local_id /\ cb'[u].ref = cb[u].ref
      BY <1>3, <2>1 DEF ReadLocalId, Free, Call
    <3>2. QED
      BY <1>1, <1>4, <3>1 DEF Undisturbed, Free
  <2>2. CASE WriteLocalId(u)
    <3>1. /\ ~Free(u) /\ \A v \in Accounts : v # u => cb'[v] = cb[v]
          /\ cb'[u].at = "none" /\ local_id' = Larger(cb[u].ref, local_id)
      BY <1>3, <1>4, <2>2 DEF WriteLocalId, Free, LocalId, Undisturbed, NoCall
    <3>2. local_id' >= cb[u].ref /\ local_id' >= local_id /\ local_id' \in Int
      BY <1>3, <3>1 DEF Larger
    <3>3. \A v \in Accounts : v # u => Free(v)
      BY <1>4, <3>1 DEF Undisturbed
    <3>4. \A v \in Accounts : Free(v)' /\ cb'[v].at # "write"
      BY <3>1, <3>3 DEF Free
    <3>5. ASSUME NEW v \in Accounts, "login" \in done[v] PROVE local_id' > maxRef[v]
      <4>1. IF v = u THEN cb[u].ref > maxRef[v] ELSE local_id > maxRef[v]
        BY <1>4, <3>1, <3>3, <3>5 DEF Undisturbed
      <4>2. QED
        BY <1>3, <3>2, <4>1
    <3>6. QED
      BY <1>1, <1>4, <3>4, <3>5 DEF Undisturbed
  <2>3. QED
    BY <2>1, <2>2
<1>5. QED
  BY <1>1, <1>2, <1>4 DEF RefsInv, Careful

(* When orders are taken, all callbacks are over: if settlements are confirmed. *)
LEMMA OrderRefs == ASSUME Typed, RefsInv, NEW u \in Accounts, OrderInsert(u) PROVE RefsInv'
<1>1. /\ UNCHANGED <<done, answers, cb, disturbed>> /\ local_id' = local_id + 1
      /\ stale' = (stale \/ local_id <= maxRef[u])
      /\ maxRef' = [maxRef EXCEPT ![u] = Larger(@, local_id)]
      /\ \A v \in Accounts : Needed \ {"auth"} \subseteq done[v]
  BY DEF OrderInsert, is_logged_in
<1>2. \A v \in Accounts : "login" \in done[v] /\ ("settle" \in Needed => "settle" \in done[v])
  BY <1>1, TDLoginAssumption
<1>3. local_id \in Int /\ maxRef \in [Accounts -> Int]
  BY DEF Typed
<1>4. LoginAnswers'
  <2>1. ASSUME NEW v \in Accounts PROVE InOrder(answers[v], done[v], maxRef'[v])
    BY <1>2 DEF RefsInv, LoginAnswers, InOrder
  <2>2. QED
    BY <1>1, <2>1 DEF LoginAnswers, InOrder, IsLogin
<1>5. stale' \in BOOLEAN
  BY <1>1
<1>6. ASSUME Careful, Undisturbed PROVE Undisturbed'
  <2>1. \A v \in Accounts : Free(v) /\ local_id > maxRef[v]
    BY <1>2, <1>6 DEF Undisturbed, Careful
  <2>2. ~stale'
    <3>1. ~(local_id <= maxRef[u])
      BY <1>3, <2>1
    <3>2. ~stale
      BY <1>6 DEF Undisturbed
    <3>3. QED
      BY <1>1, <3>1, <3>2, Zenon
  <2>3. \A v \in Accounts : local_id' > maxRef'[v]
    BY <1>1, <1>3, <2>1 DEF Larger
  <2>4. QED
    BY <1>1, <1>2, <1>6, <2>1, <2>2, <2>3 DEF Undisturbed, Free
<1>7. QED
  BY <1>1, <1>4, <1>5, <1>6 DEF RefsInv, Careful

LEMMA RefsStep == ASSUME Typed, RefsInv, [Next]_vars PROVE RefsInv'
<1>1. CASE \/ EngineOpen \/ Connect \/ ConnectEnds \/ TryLogin \/ StepEnds
           \/ (\E u \in Accounts : OnFrontConnected(u)) \/ UNCHANGED vars
  BY <1>1, QuietRefs
<1>2. CASE Ask \/ EngineClose \/ Restart \/ ReleaseApi
  BY <1>2, AskRefs, CloseRefs, RestartRefs, ReleaseRefs
<1>3. CASE \E u \in Accounts : OnFrontDisconnected(u)
  BY <1>3, DisconnectRefs
<1>4. CASE \E u \in Accounts : OnRsp(u)
  BY <1>4, AnswerRefs
<1>5. CASE \E u \in Accounts : ReadLocalId(u) \/ WriteLocalId(u)
  BY <1>5, LocalIdRefs
<1>6. CASE \E u \in Accounts : OrderInsert(u)
  BY <1>6, OrderRefs
<1>7. QED
  BY <1>1, <1>2, <1>3, <1>4, <1>5, <1>6 DEF Next, Listening, Callback

(***************************************************************************)
(* For any number of accounts, any orders and any faults: if settlements   *)
(* are confirmed, the counter never sees an order reference twice, unless  *)
(* a settlement was confirmed while its account was not logged in, or the  *)
(* login callbacks of two accounts overlapped (OnRspUserLogin's max_ref    *)
(* against the local_id of ITDEngine::listening).                          *)
(***************************************************************************)
THEOREM ReferencesStayFresh == Spec => []RefsFresh
<1>1. Init => Inv /\ RefsInv
  BY InitInv, RefsInit
<1>2. Inv /\ RefsInv /\ [Next]_vars => Inv' /\ RefsInv'
  BY NextKeeps, RefsStep DEF Inv
<1>3. RefsInv => RefsFresh
  BY DEF RefsInv, Careful, Undisturbed, RefsFresh
<1>4. QED
  BY <1>1, <1>2, <1>3, PTL DEF Spec
=============================================================================
