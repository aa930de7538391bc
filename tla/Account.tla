------------------------------ MODULE Account ------------------------------
(***************************************************************************)
(* The registration of one account: Account (account.cpp), the SIP         *)
(* operation it drives (SalRegisterOp), the callbacks that bring the       *)
(* registrar's answers back (callbacks.c), the core's lists of accounts    *)
(* and deleted accounts, the reachability of the network and the stop of   *)
(* the core.                                                               *)
(*                                                                         *)
(* The state of the account is one record, because its methods call each   *)
(* other: setState() runs handleDeletion(), which may unregister, change   *)
(* the state again or remove the account.  Every method is an operator     *)
(* that takes the record and returns it; an action is what one event of    *)
(* the main loop does.                                                     *)
(*                                                                         *)
(* The refresher of belle-sip runs one transaction at a time and ignores   *)
(* the answers to older ones, so a REGISTER overtaken by another one needs *)
(* no state here: it either reached the registrar before or it is lost.    *)
(***************************************************************************)
EXTENDS Naturals

CONSTANTS
    MaxFaults,   \* refusals, challenges, lost answers and lost connections
    MaxOutages,  \* times the network goes down
    MaxRequests  \* changes of parameters and refreshes the application asks for

ASSUME BoundsAssumption ==
    MaxFaults \in Nat /\ MaxOutages \in Nat /\ MaxRequests \in Nat

VARIABLES
    acc,     \* the Account object and its SalRegisterOp
    where,   \* "in" the core's list, "deleted" (mDeletedAccounts) or "gone"
    answer,  \* what the registrar answered to the transaction of the op
    bound,   \* the registrar holds the binding of this contact
    netUp,   \* sip_network_state.global_state
    core,    \* the global state
    faults, outages, requests  \* counters of the bounds

vars == <<acc, where, answer, bound, netUp, core, faults, outages, requests>>

States == {"None", "Progress", "Ok", "Refreshing", "Failed", "Cleared"}
Kinds == {"reg", "unreg"}
Errors == {"ioerror", "unavailable", "timeout", "refused", "challenged"}

(* mState, mPreviousState, mParams->mRegisterEnabled, mNeedToRegister,      *)
(* mIsUnregistering and mDeletionTimer; whether update() is posted; the     *)
(* operation with its refresher ("bare" when sending failed and there is    *)
(* none), what the refresher last asked for, whether a transaction runs,    *)
(* whether its timer will ask again, and whether the operation is among the *)
(* pending authentications ("asked": the application is still to be asked). *)
Account ==
    [state: States, prev: States, enabled: BOOLEAN, need: BOOLEAN,
     unregistering: BOOLEAN, timer: {"off", "armed", "fired"},
     posted: BOOLEAN, op: {"none", "bare", "live"}, target: Kinds,
     running: BOOLEAN, armed: BOOLEAN, auth: {"none", "asked", "pending"}]

(* An operation without a refresher has no transaction, no timer and no     *)
(* challenge; only a registration is repeated.                              *)
WellFormed(a) ==
    /\ a \in Account
    /\ a.running => a.op = "live"
    /\ a.armed => a.op = "live" /\ a.target = "reg"
    /\ a.auth # "none" => a.op = "live"

(* The type invariant; the deletion timer runs for the deleted accounts and *)
(* for no other, accounts that left the list are disabled, and those that   *)
(* are gone, or released with the core, have no operation.                  *)
TypeOK ==
    /\ WellFormed(acc)
    /\ where \in {"in", "deleted", "gone"}
    /\ answer \in {"none", "ok"} \cup Errors
    /\ bound \in BOOLEAN /\ netUp \in BOOLEAN
    /\ core \in {"On", "Shutdown", "Off"}
    /\ faults \in 0..MaxFaults /\ outages \in 0..MaxOutages
    /\ requests \in 0..MaxRequests
    /\ answer # "none" => acc.running
    /\ where = "in" => acc.timer = "off"
    /\ (acc.timer = "armed") = (where = "deleted" /\ core # "Off")
    /\ where # "in" => ~acc.enabled
    /\ where = "gone" \/ core = "Off" => acc.op = "none"
-----------------------------------------------------------------------------
(* The methods of Account and SalRegisterOp. *)

TriggerUpdate(a) == [a EXCEPT !.posted = TRUE]

SetNeedToRegister(a) == TriggerUpdate([a EXCEPT !.need = TRUE])

DeletionPending(a) == a.timer # "off"

(* Mutant: the transaction of a released operation still reports. *)
MutReleased(a) == [a EXCEPT !.op = "none", !.armed = FALSE, !.auth = "none"]

(* SalOp::release(): the refresher is stopped and the operation leaves the  *)
(* pending authentications.                                                 *)
Released(a) ==
    [a EXCEPT !.op = "none", !.running = FALSE, !.armed = FALSE, !.auth = "none"]

(* belle_sip_refresher_refresh() and belle_sip_client_transaction_..., which *)
(* replace a transaction that was running.                                   *)
Launch(a, kind) ==
    [a EXCEPT !.target = kind, !.running = TRUE, !.armed = (kind = "reg")]

Unregister(a) ==
    IF a.op # "none" /\ a.state \in {"Ok", "Failed"}
    THEN [(IF a.op = "live" THEN Launch(a, "unreg") ELSE a)
             EXCEPT !.unregistering = TRUE]
    ELSE a

(* Mutant: mIsUnregistering is not reset. *)
MutMove(a, s) == TriggerUpdate([a EXCEPT !.prev = a.state, !.state = s])

(* setState() up to handleDeletion(). *)
Move(a, s) ==
    TriggerUpdate([a EXCEPT !.unregistering = FALSE, !.prev = a.state,
                            !.state = s])

(* Core::removeDeletedAccount() as handleDeletion() calls it; that the      *)
(* account leaves the list is seen by its timer being off.                  *)
RemoveDeleted(a) == Released([a EXCEPT !.timer = "off"])

(* Mutant: a 200 to the REGISTER of a removed account is ignored. *)
MutHandleDeletion(a) ==
    CASE a.state \in {"Ok", "None"} -> a
      [] a.state = "Cleared"        -> RemoveDeleted(a)
      [] OTHER                      -> Move(a, "None")

HandleDeletion(a) ==
    CASE a.state = "Ok"      -> Unregister(a)
      [] a.state = "Cleared" -> RemoveDeleted(a)
      [] a.state = "None"    -> a
      [] OTHER               -> Move(a, "None")

SetState(a, s) ==
    IF a.state = s /\ s # "Ok" THEN a
    ELSE LET m == Move(a, s)
         IN  IF DeletionPending(m) THEN HandleDeletion(m) ELSE m

(* registerAccount(); sent is the outcome of sendRegister(). *)
RegisterAccount(a, sent) ==
    IF ~a.enabled THEN Unregister(a)
    ELSE IF sent
         THEN SetState(Launch([Released(a) EXCEPT !.op = "live"], "reg"), "Progress")
         ELSE SetState([Released(a) EXCEPT !.op = "bare"], "Failed")

CanRegister(a) == netUp /\ ~(a.state = "None" /\ DeletionPending(a))

(* register_success(). *)
Succeeded(a) ==
    LET done == [a EXCEPT !.running = FALSE, !.auth = "none"]
        refreshing == IF done.prev = "Ok" THEN SetState(done, "Refreshing") ELSE done
    IN  IF a.target = "reg" THEN SetState(refreshing, "Ok")
        ELSE SetState(done, "Cleared")

(* Mutant: an I/O error while registered is only logged. *)
MutFailed(a, error) ==
    LET done == [a EXCEPT !.running = FALSE,
                          !.armed = @ /\ error \notin {"refused", "challenged"}]
    IN  IF error \in {"ioerror", "unavailable"} /\ a.state = "Ok" THEN done
        ELSE IF error = "challenged" THEN [done EXCEPT !.auth = "asked"]
        ELSE SetState(done, IF a.unregistering THEN "None" ELSE "Failed")

(* register_failure(), and the refresher that tries again unless the        *)
(* registrar said no.                                                       *)
Failed(a, error) ==
    LET done == [a EXCEPT !.running = FALSE,
                          !.armed = @ /\ error \notin {"refused", "challenged"}]
    IN  IF error \in {"ioerror", "unavailable"} /\ a.state = "Ok"
        THEN SetState(done, "Progress")
        ELSE IF error = "challenged" THEN [done EXCEPT !.auth = "asked"]
        ELSE SetState(done, IF a.unregistering THEN "None" ELSE "Failed")
-----------------------------------------------------------------------------
(* An event that leaves the account in the state a.  A transaction that was *)
(* replaced or dropped takes its answer with it, and handleDeletion() may   *)
(* have removed the account.                                                *)
Becomes(a, keepsTransaction) ==
    /\ acc' = a
    /\ answer' = IF keepsTransaction THEN answer ELSE "none"
    /\ where' = IF where = "deleted" /\ a.timer # "armed" THEN "gone" ELSE where

(* Core::addAccount() of a new account: apply() finds no old parameters and *)
(* asks for a registration.                                                 *)
Init ==
    /\ \E e \in BOOLEAN :
          acc = [state |-> "None", prev |-> "None", enabled |-> e, need |-> TRUE,
                 unregistering |-> FALSE, timer |-> "off", posted |-> TRUE,
                 op |-> "none", target |-> "reg", running |-> FALSE,
                 armed |-> FALSE, auth |-> "none"]
    /\ where = "in" /\ answer = "none" /\ bound = FALSE
    /\ netUp \in BOOLEAN /\ core = "On"
    /\ faults = 0 /\ outages = 0 /\ requests = 0

(* The task posted by triggerUpdate(). *)
Update ==
    /\ acc.posted /\ core # "Off"
    /\ LET a == [acc EXCEPT !.posted = FALSE]
       IN  IF core = "On" /\ a.need /\ CanRegister(a)
           THEN \E sent \in BOOLEAN :
                   Becomes([RegisterAccount(a, sent) EXCEPT !.need = FALSE],
                           ~a.enabled /\ a.state \notin {"Ok", "Failed"})
           ELSE Becomes(a, TRUE)
    /\ UNCHANGED <<bound, netUp, core, faults, outages, requests>>

(* setAccountParams() with a change that the registration depends on, among *)
(* them registerEnabled.                                                    *)
SetAccountParams(e) ==
    /\ core = "On" /\ where = "in" /\ requests < MaxRequests
    /\ requests' = requests + 1
    /\ Becomes(SetNeedToRegister([acc EXCEPT !.enabled = e]), TRUE)
    /\ UNCHANGED <<bound, netUp, core, faults, outages>>

(* refreshRegister(), from linphone_core_refresh_registers(), a return to   *)
(* the foreground, a push notification or the application.                  *)
RefreshRegister ==
    /\ core = "On" /\ where = "in" /\ requests < MaxRequests
    /\ acc.enabled /\ acc.op = "live" /\ acc.state # "Progress"
    /\ requests' = requests + 1
    /\ Becomes(SetState(Launch(acc, "reg"), "Refreshing"), FALSE)
    /\ UNCHANGED <<bound, netUp, core, faults, outages>>

(* Core::removeAccount(): a registered account goes to the deleted ones and *)
(* its parameters are replaced by disabled ones; another one is dropped.    *)
RemoveAccount ==
    /\ core = "On" /\ where = "in"
    /\ LET kept == SetNeedToRegister([acc EXCEPT !.timer = "armed", !.enabled = FALSE])
           left == IF acc.enabled THEN kept ELSE Released(acc)
       IN  /\ acc' = IF acc.state \in {"Failed", "Cleared"}
                     THEN SetState(left, "None") ELSE left
           /\ where' = IF acc.enabled THEN "deleted" ELSE "gone"
           /\ answer' = IF acc.enabled THEN answer ELSE "none"
    /\ UNCHANGED <<bound, netUp, core, faults, outages, requests>>

(* The deletion timer: Core::removeDeletedAccount(). *)
DeletionTimeout ==
    /\ acc.timer = "armed" /\ core # "Off"
    /\ Becomes(Released([acc EXCEPT !.timer = "fired"]), FALSE)
    /\ UNCHANGED <<bound, netUp, core, faults, outages, requests>>

(* The refresher of belle-sip asks again: before the expiry of a            *)
(* registration, or some time after a failure it may recover from.          *)
RefresherFires ==
    /\ core # "Off" /\ netUp /\ acc.armed /\ ~acc.running
    /\ Becomes(Launch(acc, "reg"), FALSE)
    /\ UNCHANGED <<bound, netUp, core, faults, outages, requests>>

(* The registrar handles the request. *)
RegistrarAnswers ==
    /\ netUp /\ acc.running /\ answer = "none"
    /\ \/ /\ answer' = "ok" /\ bound' = (acc.target = "reg")
          /\ UNCHANGED faults
       \/ /\ faults < MaxFaults /\ faults' = faults + 1
          /\ answer' \in {"refused", "challenged", "unavailable"}
          /\ UNCHANGED bound
    /\ UNCHANGED <<acc, where, netUp, core, outages, requests>>

(* The request or its answer is lost with the connection, or times out; it  *)
(* always is while the network is down.                                     *)
AnswerLost ==
    /\ acc.running /\ answer \in {"none", "ok"}
    /\ \/ netUp /\ faults < MaxFaults /\ faults' = faults + 1
       \/ ~netUp /\ UNCHANGED faults
    /\ answer' \in {"ioerror", "timeout"}
    /\ UNCHANGED <<acc, where, bound, netUp, core, outages, requests>>

(* The connection breaks while nothing is under way: the refresher reports  *)
(* the error of the channel it registered over.                             *)
ConnectionLost ==
    /\ acc.armed /\ ~acc.running /\ faults < MaxFaults
    /\ faults' = faults + 1
    /\ Becomes(Failed(acc, "ioerror"), FALSE)
    /\ UNCHANGED <<bound, netUp, core, outages, requests>>

(* registerRefresherListener(). *)
AnswerArrives ==
    /\ acc.running /\ answer # "none"
    /\ Becomes(IF answer = "ok" THEN Succeeded(acc) ELSE Failed(acc, answer), FALSE)
    /\ UNCHANGED <<bound, netUp, core, faults, outages, requests>>

(* AuthStack::processAuthRequested() when the application does not answer:  *)
(* notifyAuthFailures() looks for the account in the core's list.           *)
ProcessAuthRequested ==
    /\ acc.auth = "asked"
    /\ LET a == [acc EXCEPT !.auth = "pending"]
       IN  Becomes(IF where = "in" THEN SetState(a, "Failed") ELSE a, TRUE)
    /\ UNCHANGED <<bound, netUp, core, faults, outages, requests>>

(* linphone_core_add_auth_info(): the operations that wait are restarted. *)
AddAuthInfo ==
    /\ core # "Off" /\ acc.auth # "none"
    /\ LET a == IF where = "in" THEN SetState(acc, "Progress") ELSE acc
       IN  Becomes([Launch(a, a.target) EXCEPT !.auth = "none"], FALSE)
    /\ UNCHANGED <<bound, netUp, core, faults, outages, requests>>

(* set_sip_network_reachable(FALSE): an enabled account drops its operation;*)
(* for another one the transports are reset under its operation.            *)
NetworkDown ==
    /\ netUp /\ core # "Off" /\ outages < MaxOutages
    /\ netUp' = FALSE /\ outages' = outages + 1
    /\ Becomes(IF acc.enabled /\ where = "in" THEN SetState(Released(acc), "None")
               ELSE IF acc.running \/ acc.armed THEN Failed(acc, "ioerror")
               ELSE acc, FALSE)
    /\ UNCHANGED <<bound, core, faults, requests>>

(* Mutant: the return of the network does not ask for a registration. *)
MutNetworkUp ==
    /\ ~netUp /\ core # "Off"
    /\ netUp' = TRUE
    /\ UNCHANGED <<acc, where, answer, bound, core, faults, outages, requests>>

(* set_sip_network_reachable(TRUE). *)
NetworkUp ==
    /\ ~netUp /\ core # "Off"
    /\ netUp' = TRUE
    /\ Becomes(IF acc.enabled /\ where = "in" THEN SetNeedToRegister(acc) ELSE acc, TRUE)
    /\ UNCHANGED <<bound, core, faults, outages, requests>>

(* CorePrivate::shutdown(): unregisterAccounts(). *)
Shutdown ==
    /\ core = "On" /\ core' = "Shutdown"
    /\ IF netUp /\ where = "in"
       THEN Becomes(Unregister(acc), acc.state \notin {"Ok", "Failed"})
       ELSE Becomes(acc, TRUE)
    /\ UNCHANGED <<bound, netUp, faults, outages, requests>>

IsShutdownDone == ~(where = "in" /\ acc.unregistering)

(* _linphone_core_stop_async_end(): releaseAccounts(). *)
StopAsyncEnd ==
    /\ core = "Shutdown" /\ core' = "Off"
    /\ acc' = [Released(acc) EXCEPT !.timer = IF where = "deleted" THEN "off" ELSE @]
    /\ answer' = "none"
    /\ UNCHANGED <<where, bound, netUp, faults, outages, requests>>

(* linphone_core_iterate() while the core stops. *)
IterateStop == IsShutdownDone /\ StopAsyncEnd

(* linphone_core_stop() waits one second and no longer; after               *)
(* linphone_core_stop_async() there is no such limit.                       *)
StopTimeLimit == ~IsShutdownDone /\ StopAsyncEnd

(* The registrar, the network, the application and the main loop. *)
Next ==
    \/ Update
    \/ \E e \in BOOLEAN : SetAccountParams(e)
    \/ RefreshRegister \/ RemoveAccount \/ DeletionTimeout
    \/ RefresherFires \/ RegistrarAnswers \/ AnswerLost \/ ConnectionLost
    \/ AnswerArrives \/ ProcessAuthRequested \/ AddAuthInfo
    \/ NetworkDown \/ NetworkUp
    \/ Shutdown \/ IterateStop \/ StopTimeLimit

Spec == Init /\ [][Next]_vars

(* The main loop runs its tasks and timers and delivers what arrives, the   *)
(* registrar answers a request that reaches it, a request fails while the   *)
(* network is down, and the refresher tries again after a failure.  Nothing *)
(* is assumed of the period of a refresh, of the deletion timer, of the     *)
(* time limit of a stop, of the network or of the application.              *)
FairSpec ==
    /\ Spec
    /\ WF_vars(Update) /\ WF_vars(RegistrarAnswers) /\ WF_vars(AnswerArrives)
    /\ WF_vars(ProcessAuthRequested) /\ WF_vars(IterateStop)
    /\ WF_vars(AnswerLost /\ ~netUp)
    /\ WF_vars(RefresherFires /\ acc.state # "Ok")
-----------------------------------------------------------------------------
(* What the account shows is what the registrar holds: with no REGISTER     *)
(* under way and no challenge unanswered, "Ok" means that the binding       *)
(* exists and "Cleared" that it does not, whatever was lost, replaced or    *)
(* answered late before.                                                    *)
StateTellsBinding ==
    where # "gone" /\ core # "Off" /\ ~acc.running /\ acc.auth = "none" =>
       /\ acc.state = "Ok" => bound
       /\ acc.state = "Cleared" => ~bound

Wanted == core = "On" /\ where = "in" /\ acc.enabled /\ netUp

(* An account that is to be registered, with the network up, gets           *)
(* registered; the exception is a failure the refresher does not retry.     *)
(* The flag mNeedToRegister, the posted task, the operation that a new      *)
(* registration replaces and the network that comes and goes in between     *)
(* never leave it waiting for nothing.                                      *)
Reregisters ==
    Wanted ~> (~Wanted \/ acc.state = "Ok" \/ (acc.state = "Failed" /\ ~acc.armed))

(* An account removed while it is registered, or while a REGISTER is still  *)
(* under way or to be retried, has its binding cleared without the help of  *)
(* the deletion timer.  The exceptions are those of handleDeletion() (the registration *)
(* failed or the network broke: "un-registration is aborted") and a         *)
(* challenge nobody answers.                                                *)
RemovedUnregisters ==
    (/\ where = "deleted" /\ bound /\ netUp
     /\ acc.state = "Ok" \/ acc.running \/ acc.armed) ~>
        (~bound \/ where = "gone" \/ core # "On" \/ ~netUp
            \/ acc.state = "None" \/ acc.auth # "none")

(* A stop of the core that waits for its unREGISTER comes to its end: every *)
(* way the transaction may end clears mIsUnregistering.  The exceptions are *)
(* an operation that has no refresher and a challenge nobody answers.       *)
StopEnds ==
    core = "Shutdown" ~> (core = "Off" \/ acc.op = "bare" \/ acc.auth # "none")
=============================================================================
