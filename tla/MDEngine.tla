------------------------------ MODULE MDEngine ------------------------------
(***************************************************************************)
(* A market data engine: IMDEngine and IEngine with the counter of         *)
(* MDEngineCTP.  The listening thread reads the system journal and, when   *)
(* it opens the engine, waits for the counter; the callbacks of the        *)
(* counter set flags from a thread of their own, at any time.              *)
(*                                                                         *)
(* A batch of subscriptions is read as one frame: the page service writes  *)
(* its frames one behind the other, and only the last one makes the engine *)
(* act.                                                                    *)
(***************************************************************************)
EXTENDS Integers, FiniteSets

CONSTANTS
  Types,        \* message types of subscriptions (SUBSCRIBE_MARKET_DATA, SUBSCRIBE_L2_MD, ...)
  Tickers,
  MaxBatches,   \* bound: batches of subscriptions
  MaxFaults     \* bound: disconnections, refused logins, answers that come too late, engine closes

ASSUME MDEngineAssumption == MaxBatches \in Nat /\ MaxFaults \in Nat

VARIABLES
  pc,          \* where the listening thread is
  isRunning,   \* start() has succeeded
  api,         \* api # nullptr
  connected, logged_in,
  history_subs,
  subs_tickers,
  link,        \* counter: the front is connected
  logins,      \* counter: login requests on their way, or their answers
  bye,         \* counter: a logout request on its way, or its answer
  subscribed,  \* counter: what this session has subscribed
  late,        \* history: did the login come in while nobody waited for it?
  inClose,     \* history: did a callback come between logout and release_api?
  leftOver,    \* history: tickers of batches that ended while the engine was logged out
  batches, faults

flags   == <<api, connected, logged_in>>
subs    == <<history_subs, subs_tickers>>
counter == <<link, logins, bye, subscribed>>
history == <<late, inClose, leftOver>>
vars == <<pc, isRunning, flags, subs, counter, history, batches, faults>>

(* start() has just called try_login, which calls connect. *)
Init ==
  /\ pc = "connect" /\ isRunning = FALSE
  /\ api = TRUE /\ connected = FALSE /\ logged_in = FALSE
  /\ history_subs = {} /\ subs_tickers = {}
  /\ link = FALSE /\ logins = 0 /\ bye = FALSE /\ subscribed = {}
  /\ late = FALSE /\ inClose = FALSE /\ leftOver = {}
  /\ batches = 0 /\ faults = 0

Fault == faults < MaxFaults /\ faults' = faults + 1
NoFault == UNCHANGED faults

(* A call through a null api kills the process. *)
Crash == pc' = "crashed" /\ UNCHANGED <<isRunning, flags, counter, late, inClose>>

-----------------------------------------------------------------------------
(* IEngine: open, close.                                                   *)

(* connect: RegisterFront and Init, on a new api if there is none. *)
Connect == pc' = "connect" /\ api' = TRUE

EngineOpen ==
  /\ pc = "idle" /\ ~logged_in
  /\ IF connected THEN pc' = "ask" /\ UNCHANGED api ELSE Connect
  /\ UNCHANGED <<isRunning, connected, logged_in, subs, counter, history, batches, faults>>

(* connect: it is connected, or the time is over; connected is set anyhow. *)
ConnectEnds ==
  /\ pc = "connect"
  /\ IF connected THEN NoFault ELSE Fault
  /\ connected' = TRUE /\ pc' = "ask"
  /\ UNCHANGED <<isRunning, api, logged_in, subs, counter, history, batches>>

(* login, if try_login calls it: the request cannot be sent while the front is down. *)
Ask ==
  /\ pc = "ask"
  /\ IF connected /\ ~logged_in
     THEN IF api THEN /\ pc' = "login" /\ logins' = IF link THEN logins + 1 ELSE logins
                      /\ UNCHANGED <<isRunning, flags, link, bye, subscribed, late, inClose>>
                 ELSE Crash
     ELSE pc' = "end" /\ UNCHANGED <<isRunning, flags, counter, late, inClose>>
  /\ UNCHANGED <<subs, leftOver, batches, faults>>

(* login: it is logged in, or the time is over, a fault of the counter's if it still has to answer. *)
LoginEnds ==
  /\ pc = "login"
  /\ IF logged_in \/ logins = 0 THEN NoFault ELSE Fault
  /\ pc' = "end"
  /\ UNCHANGED <<isRunning, flags, subs, counter, history, batches>>

(* What is asked of the counter is subscribed as long as the session lasts. *)
Subscribe(s) == subscribed' = IF link THEN subscribed \cup s ELSE subscribed

(* Mutant: what was subscribed in an earlier session is not asked for again. *)
PreRunNothing == Subscribe({})

(* pre_run: subscribeHistorySubs. *)
PreRun == Subscribe(history_subs)

(* The end of try_login: pre_run if it is logged in; otherwise start() gives up. *)
OpenEnds ==
  /\ pc = "end"
  /\ IF logged_in
     THEN PreRun /\ isRunning' = TRUE /\ late' = FALSE /\ pc' = "idle"
     ELSE pc' = (IF isRunning THEN "idle" ELSE "down") /\ UNCHANGED <<subscribed, isRunning, late>>
  /\ UNCHANGED <<flags, subs, link, logins, bye, inClose, leftOver, batches, faults>>

(* Mutant: logging out leaves the flag that the front is connected. *)
LogoutKeepingFlag == logged_in' = FALSE /\ UNCHANGED connected

(* logout: its flags. *)
Logout == logged_in' = FALSE /\ connected' = FALSE

EngineClose ==
  /\ pc = "idle" /\ Fault
  /\ IF logged_in /\ ~api
     THEN Crash
     ELSE /\ pc' = "release" /\ bye' = (logged_in /\ link) /\ late' = FALSE
          /\ Logout
          /\ UNCHANGED <<isRunning, api, link, logins, subscribed, inClose>>
  /\ UNCHANGED <<subs, leftOver, batches>>

(* release_api: no callback comes from it any more. *)
ReleaseApi ==
  /\ pc = "release"
  /\ api' = FALSE /\ pc' = "idle"
  /\ link' = FALSE /\ logins' = 0 /\ bye' = FALSE /\ subscribed' = {}
  /\ UNCHANGED <<isRunning, connected, logged_in, subs, history, batches, faults>>

-----------------------------------------------------------------------------
(* IMDEngine::listening reads a batch of subscriptions.                    *)

(* Mutant: the tickers read are not cleared once they are subscribed. *)
KeptForGood(T) == subs_tickers \cup T

(* Tickers kept after the last one of a batch has been read. *)
Kept(T) == IF logged_in THEN {} ELSE subs_tickers \cup T

SubscribeBatch(type, T) ==
  /\ pc = "idle" /\ batches < MaxBatches /\ batches' = batches + 1
  /\ history_subs' = history_subs \cup ({type} \X T)
  /\ subs_tickers' = Kept(T)
  /\ leftOver' = IF logged_in THEN leftOver ELSE leftOver \cup T
  /\ IF logged_in
     THEN IF api THEN /\ Subscribe({type} \X (subs_tickers \cup T))
                      /\ UNCHANGED <<pc, isRunning, flags, link, logins, bye, late, inClose>>
                 ELSE Crash
     ELSE UNCHANGED <<pc, isRunning, flags, counter, late, inClose>>
  /\ UNCHANGED faults

-----------------------------------------------------------------------------
(* Callbacks of the counter.                                               *)

Alive == pc \notin {"down", "crashed"}
Called == inClose' = (inClose \/ pc = "release")

OnFrontConnected ==
  /\ Alive /\ api /\ ~link
  /\ link' = TRUE /\ connected' = TRUE /\ Called
  /\ UNCHANGED <<pc, isRunning, api, logged_in, subs, logins, bye, subscribed, late, leftOver, batches, faults>>

(* Mutant: a disconnection leaves the flag that the engine is logged in. *)
DisconnectedKeepingLogin == connected' = FALSE /\ UNCHANGED logged_in

Disconnected == connected' = FALSE /\ logged_in' = FALSE

OnFrontDisconnected ==
  /\ Alive /\ link /\ Fault
  /\ link' = FALSE /\ logins' = 0 /\ bye' = FALSE /\ subscribed' = {}
  /\ Disconnected
  /\ late' = FALSE
  /\ UNCHANGED <<pc, isRunning, api, subs, inClose, leftOver, batches>>

(* The answer is not matched with a request. *)
OnRspUserLogin ==
  /\ Alive /\ link /\ logins > 0 /\ logins' = logins - 1
  /\ logged_in' = TRUE /\ Called
  /\ late' = (late \/ (~logged_in /\ pc \in {"idle", "release"}))
  /\ UNCHANGED <<pc, isRunning, api, connected, subs, link, bye, subscribed, leftOver, batches, faults>>

LoginRefused ==
  /\ Alive /\ link /\ logins > 0 /\ logins' = logins - 1
  /\ Fault
  /\ UNCHANGED <<pc, isRunning, flags, subs, link, bye, subscribed, history, batches>>

OnRspUserLogout ==
  /\ Alive /\ link /\ bye /\ bye' = FALSE
  /\ logged_in' = FALSE /\ subscribed' = {} /\ late' = FALSE /\ Called
  /\ UNCHANGED <<pc, isRunning, api, connected, subs, link, logins, leftOver, batches, faults>>

Listening == EngineOpen \/ ConnectEnds \/ Ask \/ LoginEnds \/ OpenEnds \/ ReleaseApi

Next ==
  \/ Listening \/ EngineClose
  \/ \E type \in Types, T \in (SUBSET Tickers) \ {{}} : SubscribeBatch(type, T)
  \/ OnFrontConnected \/ OnFrontDisconnected
  \/ OnRspUserLogin \/ LoginRefused \/ OnRspUserLogout

Spec == Init /\ [][Next]_vars

(***************************************************************************)
(* The listening thread goes on, the controller opens the engine again and *)
(* again, the front comes up in the end and the counter answers.           *)
(***************************************************************************)
FairSpec ==
  /\ Spec
  /\ WF_vars(EngineOpen) /\ WF_vars(ConnectEnds) /\ WF_vars(Ask) /\ WF_vars(LoginEnds)
  /\ WF_vars(OpenEnds) /\ WF_vars(ReleaseApi)
  /\ WF_vars(OnFrontConnected) /\ WF_vars(OnRspUserLogin)

-----------------------------------------------------------------------------
(* Properties.                                                             *)

(***************************************************************************)
(* Whenever the engine is logged in and at rest, all that was ever         *)
(* subscribed is subscribed in the counter's present session ("auto        *)
(* subscription when re-begin md engine", IMDEngine.h), unless the answer  *)
(* to its login came after it had stopped to wait for it.                  *)
(***************************************************************************)
HistorySubscribed == pc = "idle" /\ logged_in /\ ~late => history_subs \subseteq subscribed

(***************************************************************************)
(* Nothing is subscribed under a type it was not asked for, unless its     *)
(* batch ended while the engine was logged out: its tickers then wait for  *)
(* the next batch, of whatever type.                                       *)
(***************************************************************************)
OnlyAskedSubscribed == subscribed \subseteq history_subs \cup (Types \X leftOver)

(***************************************************************************)
(* The engine never calls the counter through a null api, unless a         *)
(* callback set a flag between logout and release_api.                     *)
(***************************************************************************)
NoNullCall == pc = "crashed" => inClose

(***************************************************************************)
(* Once the faults are over, an engine that is opened again and again      *)
(* has all its history subscribed, unless a late login makes it believe    *)
(* that it is "already running".                                           *)
(***************************************************************************)
SubscribedAgain == []<>(history_subs \subseteq subscribed \/ late \/ ~Alive)
=============================================================================
