--------------------------- MODULE TrafficReport ---------------------------
(***************************************************************************)
(* Traffic accounting: the per-user counters that the dispatcher's         *)
(* SizeStatReader/SizeStatWriter add to, the drain-report-restore cycle of *)
(* userInfoMonitor (service/controller/controller.go), getTraffic and      *)
(* restoreTraffic (control.go) and the push of the panel client            *)
(* (api/v2board/v2board.go), with the panel as the environment.            *)
(*                                                                         *)
(* A counter is named <<tag, user, direction>>.  The node monitor may      *)
(* publish another tag or user list between any two steps.                 *)
(***************************************************************************)
EXTENDS Naturals, FiniteSets

CONSTANTS
    Users, Tags, Directions,
    Faults,        \* what may go wrong with a push before the panel books it
    DisableUploadTraffic,  \* the configuration switch of that name
    RetryCount,    \* resty: transport errors are retried so many times
    MaxBytes,      \* bound: bytes relayed per counter
    MaxLostReplies,\* bound: pushes the panel booked but could not answer
    MaxChanges     \* bound: tag and list changes by the node monitor

Counters == Tags \X Users \X Directions

ASSUME TrafficAssumption ==
    /\ Faults \subseteq {"refuse", "loseRequest"}
    /\ DisableUploadTraffic \in BOOLEAN
    /\ RetryCount \in Nat
    /\ MaxBytes \in Nat
    /\ MaxLostReplies \in Nat
    /\ MaxChanges \in Nat

VARIABLES
    counters,   \* stats.Counter values
    relayed,    \* bytes ever added to a counter (history)
    credited,   \* bytes the panel has booked (history)
    userList, tag,      \* published by the node monitor
    pc,         \* userInfoMonitor's next step
    snapshot,   \* the list it read
    todo,       \* counters it has still to drain, or to restore
    drained,    \* bytes taken off the counters and not settled yet
    retries,    \* transport errors of this push so far
    changes, lostReplies

vars == <<counters, relayed, credited, userList, tag, pc, snapshot, todo, drained,
          retries, changes, lostReplies>>
monitor == <<pc, snapshot, todo, drained, retries>>

Amounts == [Counters -> Nat]
Zero == [c \in Counters |-> 0]

TypeOK ==
    /\ counters \in Amounts
    /\ relayed \in Amounts
    /\ credited \in Amounts
    /\ userList \in SUBSET Users
    /\ tag \in Tags
    /\ pc \in {"idle", "tag", "drain", "push", "restore"}
    /\ snapshot \in SUBSET Users
    /\ todo \in SUBSET Counters
    /\ drained \in Amounts
    /\ retries \in 0 .. RetryCount
    /\ changes \in 0 .. MaxChanges
    /\ lostReplies \in 0 .. MaxLostReplies

Init ==
    /\ counters = Zero
    /\ relayed = Zero
    /\ credited = Zero
    /\ userList \in SUBSET Users
    /\ tag \in Tags
    /\ pc = "idle"
    /\ snapshot = {}
    /\ todo = {}
    /\ drained = Zero
    /\ retries = 0
    /\ changes = 0
    /\ lostReplies = 0

-----------------------------------------------------------------------------
(* SizeStatWriter and SizeStatReader: Counter.Add.  A connection outlives   *)
(* the removal of its user and of its tag, so any counter may grow.         *)
Relay(c) ==
    /\ relayed[c] < MaxBytes
    /\ counters' = [counters EXCEPT ![c] = @ + 1]
    /\ relayed' = [relayed EXCEPT ![c] = @ + 1]
    /\ UNCHANGED <<credited, userList, tag, monitor, changes, lostReplies>>

(* setState and setUserList of the node monitor.                            *)
setState(t) ==
    /\ changes < MaxChanges
    /\ changes' = changes + 1
    /\ tag' = t
    /\ UNCHANGED <<counters, relayed, credited, userList, monitor, lostReplies>>

setUserList(list) ==
    /\ changes < MaxChanges
    /\ changes' = changes + 1
    /\ userList' = list
    /\ UNCHANGED <<counters, relayed, credited, tag, monitor, lostReplies>>

-----------------------------------------------------------------------------
(* userInfoMonitor.  The list and the tag are read separately, once each.   *)
getUserList ==
    /\ pc = "idle"
    /\ snapshot' = userList
    /\ pc' = "tag"
    /\ UNCHANGED <<counters, relayed, credited, userList, tag, todo, drained, retries,
                   changes, lostReplies>>

getTag ==
    /\ pc = "tag"
    /\ todo' = {tag} \X snapshot \X Directions
    /\ pc' = "drain"
    /\ UNCHANGED <<counters, relayed, credited, userList, tag, snapshot, drained, retries,
                   changes, lostReplies>>

(* mutant: Value() followed by Set(0), with bytes arriving in between lost  *)
getTrafficReadThenReset(c) ==
    /\ pc = "drain"
    /\ c \in todo
    /\ \E late \in 0 .. 1 :
          /\ late <= counters[c]
          /\ drained' = [drained EXCEPT ![c] = counters[c] - late]
    /\ counters' = [counters EXCEPT ![c] = 0]
    /\ todo' = todo \ {c}
    /\ UNCHANGED <<relayed, credited, userList, tag, pc, snapshot, retries, changes,
                   lostReplies>>

(* getTraffic: Counter.Set(0) swaps the counter with zero.                  *)
getTraffic(c) ==
    /\ pc = "drain"
    /\ c \in todo
    /\ drained' = [drained EXCEPT ![c] = counters[c]]
    /\ counters' = [counters EXCEPT ![c] = 0]
    /\ todo' = todo \ {c}
    /\ UNCHANGED <<relayed, credited, userList, tag, pc, snapshot, retries, changes,
                   lostReplies>>

(* Nothing drained, nothing to push; with the upload disabled what was      *)
(* drained is dropped on purpose.                                           *)
DrainDone ==
    /\ pc = "drain"
    /\ todo = {}
    /\ IF drained = Zero \/ DisableUploadTraffic
       THEN pc' = "idle" /\ drained' = Zero
       ELSE pc' = "push" /\ UNCHANGED drained
    /\ UNCHANGED <<counters, relayed, credited, userList, tag, snapshot, todo, retries,
                   changes, lostReplies>>

Drained == {c \in Counters : drained[c] > 0}

Book == credited' = [c \in Counters |-> credited[c] + drained[c]]

(* mutant: the report is also kept for the next cycle after a success       *)
PushAcceptedRestores ==
    /\ pc = "push"
    /\ Book
    /\ todo' = Drained
    /\ retries' = 0
    /\ pc' = "restore"
    /\ UNCHANGED <<counters, relayed, userList, tag, snapshot, drained, changes, lostReplies>>

(* The panel books the push and says so.                                    *)
PushAccepted ==
    /\ pc = "push"
    /\ Book
    /\ drained' = Zero
    /\ retries' = 0
    /\ pc' = "idle"
    /\ UNCHANGED <<counters, relayed, userList, tag, snapshot, todo, changes,
                   lostReplies>>

(* mutant: the tag is read again for the restore                            *)
PushFailedOnNewTag ==
    /\ pc' = "restore"
    /\ todo' = {c \in Drained : c[1] = tag}
    /\ retries' = 0

(* mutant: the error is logged and nothing is put back                      *)
PushFailedDrops ==
    /\ pc' = "restore"
    /\ todo' = {}
    /\ retries' = 0

(* ReportUserTraffic returns an error: the bytes go back.                   *)
PushFailed ==
    /\ pc' = "restore"
    /\ todo' = Drained
    /\ retries' = 0

(* The panel answers with an error status; resty does not retry that.       *)
PushRefused ==
    /\ pc = "push"
    /\ "refuse" \in Faults
    /\ PushFailed
    /\ UNCHANGED <<counters, relayed, credited, userList, tag, snapshot, drained, changes,
                   lostReplies>>

(* A transport error is retried, the last one is returned.                  *)
PushError ==
    IF retries < RetryCount
    THEN retries' = retries + 1 /\ UNCHANGED <<pc, todo>>
    ELSE PushFailed

(* The request, or only the reply to it, is lost or times out.              *)
PushLostRequest ==
    /\ pc = "push"
    /\ "loseRequest" \in Faults
    /\ PushError
    /\ UNCHANGED <<counters, relayed, credited, userList, tag, snapshot, drained, changes,
                   lostReplies>>

PushLostReply ==
    /\ pc = "push"
    /\ lostReplies < MaxLostReplies
    /\ lostReplies' = lostReplies + 1
    /\ Book
    /\ PushError
    /\ UNCHANGED <<counters, relayed, userList, tag, snapshot, drained, changes>>

(* mutant: the counter is overwritten with the drained amount (Set for Add) *)
restoreTrafficSet(c) ==
    /\ pc = "restore"
    /\ c \in todo
    /\ counters' = [counters EXCEPT ![c] = drained[c]]
    /\ drained' = [drained EXCEPT ![c] = 0]
    /\ todo' = todo \ {c}
    /\ UNCHANGED <<relayed, credited, userList, tag, pc, snapshot, retries, changes,
                   lostReplies>>

restoreTraffic(c) ==
    /\ pc = "restore"
    /\ c \in todo
    /\ counters' = [counters EXCEPT ![c] = @ + drained[c]]
    /\ drained' = [drained EXCEPT ![c] = 0]
    /\ todo' = todo \ {c}
    /\ UNCHANGED <<relayed, credited, userList, tag, pc, snapshot, retries, changes,
                   lostReplies>>

RestoreDone ==
    /\ pc = "restore"
    /\ todo = {}
    /\ pc' = "idle"
    /\ UNCHANGED <<counters, relayed, credited, userList, tag, snapshot, todo, drained,
                   retries, changes, lostReplies>>

-----------------------------------------------------------------------------
MonitorStep ==
    \/ getUserList
    \/ getTag
    \/ \E c \in Counters : getTraffic(c) \/ restoreTraffic(c)
    \/ DrainDone
    \/ RestoreDone

PushStep == PushAccepted \/ PushRefused \/ PushLostRequest \/ PushLostReply

Next ==
    \/ \E c \in Counters : Relay(c)
    \/ \E t \in Tags : setState(t)
    \/ \E list \in SUBSET Users : setUserList(list)
    \/ MonitorStep
    \/ PushStep

(* The periodic task keeps running, every push ends, and a panel that is    *)
(* asked again and again answers at last.                                   *)
Fairness ==
    /\ WF_vars(MonitorStep)
    /\ WF_vars(PushStep)
    /\ SF_vars(PushAccepted)

Spec == Init /\ [][Next]_vars
LiveSpec == Spec /\ Fairness

-----------------------------------------------------------------------------
Unsettled(c) == counters[c] + drained[c]

(* No byte is lost: what a counter has seen is still on it, in the report   *)
(* under way, or booked by the panel, whatever the panel and the node       *)
(* monitor do between the steps of a report (getTraffic, restoreTraffic).   *)
NeverLost ==
    \A c \in Counters : ~DisableUploadTraffic => relayed[c] <= Unsettled(c) + credited[c]

(* As long as no reply of the panel was lost, no byte is booked twice       *)
(* either, retries included.                                                *)
Conserved ==
    (lostReplies = 0 /\ ~DisableUploadTraffic) =>
        \A c \in Counters : relayed[c] = Unsettled(c) + credited[c]

(* A report that fails half-way through its retries puts back exactly the   *)
(* counters it took, so between two reports nothing is held back.           *)
NothingHeldBack == pc = "idle" => drained = Zero

(* A byte reaches the panel, although pushes keep failing now and then,     *)
(* unless the node monitor takes its user or its tag away (userInfoMonitor  *)
(* asks only for the counters of the published tag and list).               *)
Reportable(c) == c[1] = tag /\ c[2] \in userList
EventuallyBooked ==
    \A c \in Counters, n \in 1 .. MaxBytes :
        (Reportable(c) /\ relayed[c] = n) ~> (credited[c] >= n \/ ~Reportable(c))

(* The abstract ledger this implements.                                     *)
Ledger == INSTANCE TrafficLedger WITH
              owed <- [c \in Counters |-> Unsettled(c)],
              credited <- credited,
              MayRebook <- MaxLostReplies > 0

(* Every step is a Relay, a Push, a Rebook or nothing to the ledger.        *)
LedgerSpec == Ledger!Spec
=============================================================================
