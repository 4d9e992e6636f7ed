------------------------------- MODULE TDLogin -------------------------------
(***************************************************************************)
(* How a trade engine logs in: TDEngineCTP under IEngine, and the counter. *)
(* For one account after the other the listening thread connects, and then *)
(* authenticates, logs in and confirms the settlement, waiting a while for *)
(* each.  Every account has an api with a callback thread of its own.      *)
(*                                                                         *)
(* The counter handles a request when it gets it; its answer waits to be   *)
(* handed to the callback.  Request ids only serve to recognise the answer *)
(* to the latest request of a step: an answer says whether it is "fresh".  *)
(***************************************************************************)
EXTENDS Integers, Sequences

CONSTANTS
  N,             \* number of accounts
  Needed,        \* the steps that are configured: need_authenticate, need_settleConfirm
  MaxOrders,     \* bound: orders
  MaxFaults      \* bound: faults of the network and the counter, engine closes, restarts

ASSUME TDLoginAssumption ==
  /\ N \in Nat \ {0} /\ MaxOrders \in Nat /\ MaxFaults \in Nat
  /\ "login" \in Needed /\ Needed \subseteq {"auth", "login", "settle"}

Accounts == 1 .. N
Steps == <<"auth", "login", "settle">>
Larger(a, b) == IF a > b THEN a ELSE b

VARIABLES
  pc, idx, step,   \* listening thread: what it does, for which account, which step of login
  waiting,         \* it spins
  cur,             \* curAccountIdx
  api, connected,  \* account -> api # nullptr and connected
  initialized,
  done,            \* account -> steps with authenticated, logged_in, settle_confirmed
  local_id,
  cb,              \* account -> what its callback thread is at in OnRspUserLogin
  link,            \* counter: account -> is its front connected?
  session,         \* counter: account -> "none", "open", or "known": the engine has its ids
  answers,         \* counter: account -> answers on their way
  maxRef,          \* counter: account -> largest order reference it has seen
  stale,           \* history: has an order come with a reference it had seen?
  disturbed,       \* history: was an account's settlement confirmed while it was not logged
                   \* in, or did the login callbacks of two accounts overlap?
  orders, faults

engine  == <<cur, api, connected, initialized, done, local_id, cb>>
counter == <<link, session, answers, maxRef>>
vars == <<pc, idx, step, waiting, engine, counter, stale, disturbed, orders, faults>>

All(x) == [u \in Accounts |-> x]
NoCall == [at |-> "none", ref |-> 0, seen |-> 0]

Fresh ==
  /\ pc = "idle" /\ idx = 1 /\ step = 1 /\ waiting = FALSE
  /\ cur = 1
  /\ api = All(FALSE) /\ connected = All(FALSE) /\ initialized = All(FALSE)
  /\ done = All({})
  /\ local_id = 1
  /\ cb = All(NoCall)

Init ==
  /\ Fresh
  /\ link = All(FALSE) /\ session = All("none") /\ answers = All(<<>>) /\ maxRef = All(0)
  /\ stale = FALSE /\ disturbed = FALSE /\ orders = 0 /\ faults = 0

Fault == faults < MaxFaults /\ faults' = faults + 1
NoFault == UNCHANGED faults
Position == <<pc, idx, step, waiting>>

is_logged_in == \A u \in Accounts : (Needed \ {"auth"}) \subseteq done[u]
is_connected == \A u \in Accounts : connected[u]

-----------------------------------------------------------------------------
(* IEngine::on_engine_open and try_login; connect.                         *)

At(label, i, s) == pc' = label /\ idx' = i /\ step' = s /\ waiting' = FALSE

EngineOpen ==
  /\ pc = "idle" /\ ~is_logged_in
  /\ IF is_connected THEN At("login", 1, 1) ELSE At("connect", 1, 1)
  /\ UNCHANGED <<engine, counter, stale, disturbed, orders, faults>>

(* connect goes on to the next account; after the last one try_login decides whether to log in. *)
NextAccount == IF idx < N THEN At("connect", idx + 1, 1) ELSE At("connected", 1, 1)

Connect ==
  /\ pc = "connect" /\ ~waiting
  /\ api' = [api EXCEPT ![idx] = TRUE]
  /\ IF connected[idx]
     THEN NextAccount /\ UNCHANGED <<cur, initialized>>
     ELSE /\ cur' = idx /\ initialized' = [initialized EXCEPT ![idx] = TRUE]
          /\ waiting' = TRUE /\ UNCHANGED <<pc, idx, step>>
  /\ UNCHANGED <<connected, done, local_id, cb, counter, stale, disturbed, orders, faults>>

(* Mutant: an account whose front has not come up in time is left as not connected. *)
ConnectedAsSeen == connected

(* Connected or not, the account counts as connected once the wait is over. *)
Connected == [connected EXCEPT ![cur] = TRUE]

ConnectEnds ==
  /\ pc = "connect" /\ waiting
  /\ IF connected[idx] \/ link[idx] THEN NoFault ELSE Fault
  /\ connected' = Connected
  /\ NextAccount
  /\ UNCHANGED <<cur, api, initialized, done, local_id, cb, counter, stale, disturbed, orders>>

TryLogin ==
  /\ pc = "connected"
  /\ IF is_connected /\ ~is_logged_in THEN At("login", 1, 1) ELSE At("idle", 1, 1)
  /\ UNCHANGED <<engine, counter, stale, disturbed, orders, faults>>

-----------------------------------------------------------------------------
(* login.                                                                  *)

NextStep ==
  IF step < 3 THEN At("login", idx, step + 1)
  ELSE IF idx < N THEN At("login", idx + 1, 1) ELSE At("idle", 1, 1)

(* The request id of step s of account u is given away again. *)
Outdate(u, s) == [k \in DOMAIN answers[u] |->
                    IF answers[u][k].step = s THEN [answers[u][k] EXCEPT !.fresh = FALSE] ELSE answers[u][k]]

(* What the counter answers to step s of account u; it confirms nothing without a login. *)
Answer(u, s) ==
  IF s = "settle" /\ session[u] = "none" THEN <<>> ELSE <<[step |-> s, fresh |-> TRUE, ref |-> maxRef[u] + 1]>>

Request(u, s) ==
  IF link[u]
  THEN \/ /\ answers' = [answers EXCEPT ![u] = Outdate(u, s) \o Answer(u, s)]
          /\ session' = IF s = "login" THEN [session EXCEPT ![u] = "open"] ELSE session
          /\ NoFault
       \/ answers' = [answers EXCEPT ![u] = Outdate(u, s)] /\ Fault /\ UNCHANGED session
  ELSE answers' = [answers EXCEPT ![u] = Outdate(u, s)] /\ NoFault /\ UNCHANGED session

Ask ==
  /\ pc = "login" /\ ~waiting
  /\ IF Steps[step] \in Needed \ done[idx]
     THEN Request(idx, Steps[step]) /\ waiting' = TRUE /\ UNCHANGED <<pc, idx, step>>
     ELSE NextStep /\ NoFault /\ UNCHANGED <<answers, session>>
  /\ UNCHANGED <<engine, link, maxRef, stale, disturbed, orders>>

(* Is the answer that is waited for still to come? *)
Due == \E k \in DOMAIN answers[idx] : answers[idx][k].step = Steps[step] /\ answers[idx][k].fresh

(* The step is done, or the time is over; the next step follows all the same. *)
StepEnds ==
  /\ pc = "login" /\ waiting
  /\ IF Due THEN Fault ELSE NoFault
  /\ NextStep
  /\ UNCHANGED <<engine, counter, stale, disturbed, orders>>

-----------------------------------------------------------------------------
(* logout, release_api.                                                    *)

EngineClose ==
  /\ pc = "idle" /\ Fault
  /\ answers' = [u \in Accounts |-> IF "login" \in done[u] THEN Outdate(u, "login") ELSE answers[u]]
  /\ session' = [u \in Accounts |-> IF "login" \in done[u] THEN "none" ELSE session[u]]
  /\ done' = All({})
  /\ At("release", 1, 1)
  /\ UNCHANGED <<cur, api, connected, initialized, local_id, cb, link, maxRef, stale, disturbed, orders>>

ReleaseApi ==
  /\ pc = "release"
  /\ api' = [api EXCEPT ![idx] = FALSE]
  /\ initialized' = [initialized EXCEPT ![idx] = FALSE]
  /\ connected' = [connected EXCEPT ![idx] = FALSE]
  /\ done' = [done EXCEPT ![idx] = {}]
  /\ cb' = [cb EXCEPT ![idx] = NoCall]
  /\ link' = [link EXCEPT ![idx] = FALSE]
  /\ session' = [session EXCEPT ![idx] = "none"]
  /\ answers' = [answers EXCEPT ![idx] = <<>>]
  /\ IF idx < N THEN At("release", idx + 1, 1) ELSE At("idle", 1, 1)
  /\ UNCHANGED <<cur, local_id, maxRef, stale, disturbed, orders, faults>>

(* The process is started again: start() is an open. *)
Restart ==
  /\ Fault
  /\ pc' = "idle" /\ idx' = 1 /\ step' = 1 /\ waiting' = FALSE
  /\ cur' = 1
  /\ api' = All(FALSE) /\ connected' = All(FALSE) /\ initialized' = All(FALSE)
  /\ done' = All({}) /\ local_id' = 1 /\ cb' = All(NoCall)
  /\ link' = All(FALSE) /\ session' = All("none") /\ answers' = All(<<>>)
  /\ UNCHANGED <<maxRef, stale, disturbed, orders>>

-----------------------------------------------------------------------------
(* Callbacks.                                                              *)

Free(u) == cb[u].at = "none"

(* Whichever front has come up, the account connected last counts as connected. *)
OnFrontConnected(u) ==
  /\ initialized[u] /\ ~link[u] /\ Free(u)
  /\ link' = [link EXCEPT ![u] = TRUE]
  /\ connected' = [connected EXCEPT ![cur] = TRUE]
  /\ UNCHANGED <<Position, cur, api, initialized, done, local_id, cb, session, answers, maxRef, stale, disturbed, orders, faults>>

(* Mutant: only the flag of the connection is reset. *)
DoneKept == done

(* Whichever front has gone, all accounts are reset. *)
DoneReset == All({})

OnFrontDisconnected(u) ==
  /\ link[u] /\ Fault /\ Free(u)
  /\ link' = [link EXCEPT ![u] = FALSE]
  /\ session' = [session EXCEPT ![u] = "none"]
  /\ answers' = [answers EXCEPT ![u] = <<>>]
  /\ connected' = All(FALSE) /\ done' = DoneReset
  /\ UNCHANGED <<Position, cur, api, initialized, local_id, cb, maxRef, stale, disturbed, orders>>

(* Every answer but a login's; a login's sets its flags here, and its last step is LocalId. *)
OnRsp(u) ==
  LET a == Head(answers[u]) IN
  /\ Free(u) /\ answers[u] # <<>>
  /\ answers' = [answers EXCEPT ![u] = Tail(@)]
  /\ done' = IF a.fresh THEN [done EXCEPT ![u] = @ \cup {a.step}] ELSE done
  /\ session' = IF a.fresh /\ a.step = "login" THEN [session EXCEPT ![u] = "known"] ELSE session
  /\ disturbed' = \/ disturbed
                  \/ a.fresh /\ a.step = "settle" /\ "login" \notin done[u]
                  \/ a.step = "login" /\ \E v \in Accounts : ~Free(v)
  /\ cb' = IF a.step = "login" THEN [cb EXCEPT ![u] = [at |-> "read", ref |-> a.ref, seen |-> 0]] ELSE cb
  /\ UNCHANGED <<Position, cur, api, connected, initialized, local_id, link, maxRef, stale, orders, faults>>

(* OnRspUserLogin: local_id = (max_ref > local_id) ? max_ref : local_id, in two steps. *)
ReadLocalId(u) ==
  /\ cb[u].at = "read"
  /\ cb' = [cb EXCEPT ![u].at = "write", ![u].seen = local_id]
  /\ UNCHANGED <<Position, cur, api, connected, initialized, done, local_id, counter, stale, disturbed, orders, faults>>

(* Mutant: the counter's reference is forgotten. *)
LocalIdKept(u) == cb[u].seen

LocalId(u) == Larger(cb[u].ref, cb[u].seen)

WriteLocalId(u) ==
  /\ cb[u].at = "write"
  /\ local_id' = LocalId(u)
  /\ cb' = [cb EXCEPT ![u] = NoCall]
  /\ UNCHANGED <<Position, cur, api, connected, initialized, done, counter, stale, disturbed, orders, faults>>

-----------------------------------------------------------------------------
(* ITDEngine::listening takes an order of a client with account u. *)
OrderInsert(u) ==
  /\ pc = "idle" /\ is_logged_in /\ orders < MaxOrders
  /\ orders' = orders + 1
  /\ local_id' = local_id + 1
  /\ stale' = (stale \/ local_id <= maxRef[u])
  /\ maxRef' = [maxRef EXCEPT ![u] = Larger(@, local_id)]
  /\ UNCHANGED <<Position, cur, api, connected, initialized, done, cb, link, session, answers, disturbed, faults>>

Listening == EngineOpen \/ Connect \/ ConnectEnds \/ TryLogin \/ Ask \/ StepEnds \/ ReleaseApi
Callback(u) == OnRsp(u) \/ ReadLocalId(u) \/ WriteLocalId(u)

Next ==
  \/ Listening \/ EngineClose \/ Restart
  \/ \E u \in Accounts : \/ OnFrontConnected(u) \/ OnFrontDisconnected(u)
                         \/ Callback(u) \/ OrderInsert(u)

Spec == Init /\ [][Next]_vars

(* The threads go on, fronts come up, the engine is opened again and again. *)
FairSpec ==
  /\ Spec
  /\ WF_vars(Listening)
  /\ \A u \in Accounts : WF_vars(OnFrontConnected(u)) /\ WF_vars(Callback(u))

-----------------------------------------------------------------------------
(* Properties.                                                             *)

(***************************************************************************)
(* An account that the engine holds for logged in has an open session at   *)
(* the counter, the latest one, and the engine knows its ids; one whose    *)
(* settlement it holds for confirmed has a session too, but for an answer  *)
(* between logout and release_api.                                         *)
(***************************************************************************)
FlagsAreSession ==
  \A u \in Accounts : /\ "login" \in done[u] => session[u] = "known"
                      /\ "settle" \in done[u] => session[u] # "none" \/ pc = "release"

(***************************************************************************)
(* With confirmed settlements the counter never sees an order reference    *)
(* twice, through restarts and new logins, although the callback that      *)
(* moves local_id on has said "logged in" before: unless a settlement was  *)
(* confirmed while its account was not logged in (after a wait that was    *)
(* too short, or when the front of another account had gone), or two       *)
(* callback threads were moving local_id at once.                          *)
(***************************************************************************)
RefsFresh == "settle" \in Needed /\ ~disturbed => ~stale

(***************************************************************************)
(* Once the faults are over, an engine that is opened again and again is   *)
(* logged in with all its accounts: unless a front that came up in the     *)
(* middle of release_api has made an account count as connected whose api  *)
(* was released; it is never initialised again.                            *)
(***************************************************************************)
TakenForConnected == \E u \in Accounts : connected[u] /\ ~initialized[u]
LoggedInAgain == <>[]is_logged_in \/ []<>TakenForConnected
=============================================================================
