---------------------------- MODULE SessionPool ----------------------------
(***************************************************************************)
(* The client's pool of mux sessions (lib/session/client.go) with the      *)
(* parts of Session.Close, OpenStream and Stream.closeLocally its hooks    *)
(* depend on.                                                              *)
(*                                                                         *)
(* Each goroutine that calls CreateStream makes one stream, named like it. *)
(* A step is one critical section of idleSessionLock, sessionsLock or      *)
(* streamLock, one sync.Once, one look at a closed channel, or the access  *)
(* to the unsynchronised field dieHook of a stream.  A session is named by *)
(* its seq; its key on the idle list is MaxSess + 1 - seq, so that the     *)
(* newest comes first as with MaxUint64 - seq.                             *)
(***************************************************************************)
EXTENDS SkipList

CONSTANTS
    Streams,         \* goroutines that call CreateStream, and their streams
    MaxSess,         \* bound: sessions ever dialled
    MaxCalls,        \* bound: calls of CreateStream
    MinIdleSession   \* minIdleSession

ASSUME PoolAssumption == MaxSess \in Nat /\ MaxCalls \in Nat /\ MinIdleSession \in Nat

Sess == 1 .. MaxSess
Key(s) == MaxSess + 1 - s
None == 0

VARIABLES
    die,       \* Client.Close: "no", "collect", "close", "done"
    list,      \* idleSession, a skip list
    idle,      \* sessions on it, as a set
    sessions,  \* keys of the sessions map
    seq,       \* sessionCounter
    calls,
    sess,      \* session -> "none", "live", or how far its Close is
    expired,   \* idle sessions whose idleSince is past the timeout
    pc,        \* stream -> CreateStream's next step
    on,        \* stream -> its session
    stream,    \* stream -> "none", "live", "dead"
    hook,      \* stream -> dieHook: "unset", "set", "check", "insert", "done"
    cleaner,   \* the cleanup goroutine: "on" or "off"
    toClose    \* who closes -> sessions left to close

vars == <<die, list, idle, sessions, seq, calls, sess, expired, pc, on, stream, hook,
          cleaner, toClose>>
listVars == <<list, idle, expired>>
callVars == <<pc, on, seq, calls>>
streamVars == <<stream, hook>>
ownerVars == <<die, cleaner, toClose>>

Live(s) == sess[s] = "live"

(* Streams whose end came before their hook was set.                        *)
Missed(t) == stream[t] = "dead" /\ hook[t] = "unset"

TypeOK ==
    /\ die \in {"no", "collect", "close", "done"}
    /\ idle \subseteq Sess /\ sessions \subseteq Sess /\ expired \subseteq Sess
    /\ seq \in 0 .. MaxSess /\ calls \in 0 .. MaxCalls
    /\ sess \in [Sess -> {"none", "live", "unidle", "untrack", "sweep", "dead"}]
    /\ pc \in [Streams -> {"new", "get", "dial", "track", "open", "hook", "done"}]
    /\ on \in [Streams -> Sess \cup {None}]
    /\ stream \in [Streams -> {"none", "live", "dead"}]
    /\ hook \in [Streams -> {"unset", "set", "check", "insert", "done"}]
    /\ cleaner \in {"on", "off"} /\ list.len \in 0 .. MaxSess
    /\ toClose \in [{"client", "cleaner"} -> SUBSET Sess]

Init ==
    /\ die = "no"
    /\ list = NewSkipList /\ idle = {} /\ expired = {}
    /\ sessions = {} /\ seq = 0 /\ calls = 0
    /\ sess = [s \in Sess |-> "none"]
    /\ pc = [t \in Streams |-> "new"]
    /\ on = [t \in Streams |-> None]
    /\ stream = [t \in Streams |-> "none"]
    /\ hook = [t \in Streams |-> "unset"]
    /\ cleaner = "on"
    /\ toClose = [w \in {"client", "cleaner"} |-> {}]

(* Session.Close: dieOnce; the rest of it follows.                          *)
Closing(s) == [sess EXCEPT ![s] = IF @ = "live" THEN "unidle" ELSE @]

-----------------------------------------------------------------------------
(* CreateStream.                                                            *)

CreateStream(t) ==
    /\ pc[t] = "new" /\ calls < MaxCalls
    /\ calls' = calls + 1
    /\ pc' = [pc EXCEPT ![t] = IF die = "no" THEN "get" ELSE "done"]
    /\ UNCHANGED <<listVars, sessions, seq, sess, on, streamVars, ownerVars>>

(* A stream that is over, its hook included, makes room for another.        *)
Forget(t) ==
    /\ pc[t] = "done" /\ stream[t] # "live" /\ hook[t] \in {"unset", "done"}
    /\ ~Missed(t) /\ calls < MaxCalls
    /\ pc' = [pc EXCEPT ![t] = "new"]
    /\ on' = [on EXCEPT ![t] = None]
    /\ stream' = [stream EXCEPT ![t] = "none"]
    /\ hook' = [hook EXCEPT ![t] = "unset"]
    /\ UNCHANGED <<listVars, sessions, seq, calls, sess, ownerVars>>

(* mutant: the session stays on the list                                    *)
GetIdleSessionKeeps(t) ==
    /\ pc[t] = "get"
    /\ IF list.len = 0
       THEN pc' = [pc EXCEPT ![t] = "dial"] /\ UNCHANGED on
       ELSE /\ on' = [on EXCEPT ![t] = MaxSess + 1 - Iterate(list)[1]]
            /\ pc' = [pc EXCEPT ![t] = "open"]
    /\ UNCHANGED <<listVars, sessions, seq, calls, sess, streamVars, ownerVars>>

(* The first session of the list, taken off it.                             *)
GetIdleSession(t) ==
    /\ pc[t] = "get"
    /\ IF list.len = 0
       THEN pc' = [pc EXCEPT ![t] = "dial"] /\ UNCHANGED <<listVars, on>>
       ELSE LET key == Iterate(list)[1]
                s == MaxSess + 1 - key
            IN /\ on' = [on EXCEPT ![t] = s]
               /\ list' = SkipRemove(list, key)
               /\ idle' = idle \ {s} /\ expired' = expired \ {s}
               /\ pc' = [pc EXCEPT ![t] = "open"]
    /\ UNCHANGED <<sessions, seq, calls, sess, streamVars, ownerVars>>

(* createSession: the dial fails, or gives a session with its hook set.     *)
Dial(t) ==
    /\ pc[t] = "dial"
    /\ \/ /\ pc' = [pc EXCEPT ![t] = "done"]
          /\ UNCHANGED <<seq, sess, on>>
       \/ /\ seq < MaxSess
          /\ seq' = seq + 1
          /\ sess' = [sess EXCEPT ![seq + 1] = "live"]
          /\ on' = [on EXCEPT ![t] = seq + 1]
          /\ pc' = [pc EXCEPT ![t] = "track"]
    /\ UNCHANGED <<listVars, sessions, calls, streamVars, ownerVars>>

(* mutant: never registered                                                 *)
TrackSessionNot(t) ==
    /\ pc[t] = "track"
    /\ pc' = [pc EXCEPT ![t] = "open"]
    /\ UNCHANGED <<listVars, sessions, seq, calls, sess, on, streamVars, ownerVars>>

(* Registered under sessionsLock, then Run.                                 *)
TrackSession(t) ==
    /\ pc[t] = "track"
    /\ sessions' = sessions \cup {on[t]}
    /\ pc' = [pc EXCEPT ![t] = "open"]
    /\ UNCHANGED <<listVars, seq, calls, sess, on, streamVars, ownerVars>>

(* OpenStream registers the stream unless the session died or its SYN could *)
(* not be written; then the session is closed and CreateStream fails.       *)
OpenStream(t) ==
    /\ pc[t] = "open"
    /\ \/ /\ Live(on[t])
          /\ stream' = [stream EXCEPT ![t] = "live"]
          /\ pc' = [pc EXCEPT ![t] = "hook"]
          /\ UNCHANGED sess
       \/ /\ sess' = Closing(on[t])
          /\ pc' = [pc EXCEPT ![t] = "done"]
          /\ UNCHANGED stream
    /\ UNCHANGED <<listVars, sessions, seq, calls, on, hook, ownerVars>>

(* The stream is handed out; by then it may be dead and have looked for its *)
(* hook in vain.                                                            *)
SetDieHook(t) ==
    /\ pc[t] = "hook"
    /\ hook' = [hook EXCEPT ![t] = IF stream[t] = "live" THEN "set" ELSE @]
    /\ pc' = [pc EXCEPT ![t] = "done"]
    /\ UNCHANGED <<listVars, sessions, seq, calls, sess, on, stream, ownerVars>>

-----------------------------------------------------------------------------
(* The end of a stream and its hook.                                        *)

(* mutant: the end of a stream does not call its hook                       *)
CalledNot(h) == h

Called(h) == IF h = "set" THEN "check" ELSE h

(* Closed by its user, by a FIN or by an error the peer reports.            *)
StreamDies(t) ==
    /\ stream[t] = "live"
    /\ stream' = [stream EXCEPT ![t] = "dead"]
    /\ hook' = [hook EXCEPT ![t] = Called(@)]
    /\ UNCHANGED <<listVars, sessions, sess, callVars, ownerVars>>

(* mutant: the hook forgets that the client was closed                      *)
DieHookChecksSession(t) ==
    /\ hook[t] = "check"
    /\ hook' = [hook EXCEPT ![t] = IF Live(on[t]) THEN "insert" ELSE "done"]
    /\ UNCHANGED <<listVars, sessions, sess, callVars, stream, ownerVars>>

(* A live session goes back to the list, or is closed with the client.  The *)
(* two checks are one step: what session or client does between them could  *)
(* as well be done before the first or after the second.                    *)
DieHookChecks(t) ==
    /\ hook[t] = "check"
    /\ hook' = [hook EXCEPT ![t] = IF Live(on[t]) /\ die = "no" THEN "insert" ELSE "done"]
    /\ sess' = IF die = "no" THEN sess ELSE Closing(on[t])
    /\ UNCHANGED <<listVars, sessions, callVars, stream, ownerVars>>

DieHookInserts(t) ==
    /\ hook[t] = "insert"
    /\ hook' = [hook EXCEPT ![t] = "done"]
    /\ list' \in SkipInsert(list, Key(on[t]))
    /\ idle' = idle \cup {on[t]} /\ expired' = expired \ {on[t]}
    /\ UNCHANGED <<sessions, sess, callVars, stream, ownerVars>>

-----------------------------------------------------------------------------
(* The end of a session: Session.Close and the hook of createSession.       *)

(* Its receive loop ends, a write fails or the watchdog fires.              *)
SessionDies(s) ==
    /\ Live(s) /\ \A t \in Streams : on[t] = s => pc[t] # "track"
    /\ sess' = Closing(s)
    /\ UNCHANGED <<listVars, sessions, callVars, streamVars, ownerVars>>

RemoveIdle(s) ==
    /\ sess[s] = "unidle"
    /\ sess' = [sess EXCEPT ![s] = "untrack"]
    /\ list' = SkipRemove(list, Key(s))
    /\ idle' = idle \ {s} /\ expired' = expired \ {s}
    /\ UNCHANGED <<sessions, callVars, streamVars, ownerVars>>

Untrack(s) ==
    /\ sess[s] = "untrack"
    /\ sess' = [sess EXCEPT ![s] = "sweep"]
    /\ sessions' = sessions \ {s}
    /\ UNCHANGED <<listVars, callVars, streamVars, ownerVars>>

CloseStreams(s) ==
    /\ sess[s] = "sweep"
    /\ sess' = [sess EXCEPT ![s] = "dead"]
    /\ LET swept == {t \in Streams : on[t] = s /\ stream[t] = "live"}
       IN /\ stream' = [t \in Streams |-> IF t \in swept THEN "dead" ELSE stream[t]]
          /\ hook' = [t \in Streams |-> IF t \in swept THEN Called(hook[t]) ELSE hook[t]]
    /\ UNCHANGED <<listVars, sessions, callVars, ownerVars>>

-----------------------------------------------------------------------------
(* Idle cleanup and Client.Close.                                           *)

(* An idle session reaches the timeout.                                     *)
Expire(s) ==
    /\ s \in idle \ expired
    /\ expired' = expired \cup {s}
    /\ UNCHANGED <<list, idle, sessions, sess, callVars, streamVars, ownerVars>>

(* One turn of idleCleanupExpTime's loop over the list.                     *)
CleanStep(acc, key) ==
    LET s == MaxSess + 1 - key
    IN CASE s \notin expired -> [acc EXCEPT !.active = @ + 1]
         [] s \in expired /\ acc.active < MinIdleSession ->
                [acc EXCEPT !.active = @ + 1, !.fresh = @ \cup {s}]
         [] OTHER -> [acc EXCEPT !.close = @ \cup {s}, !.list = SkipRemove(@, key)]

(* mutant: the reserve is not counted                                       *)
CleanedNoReserve ==
    FoldLeft(LAMBDA acc, key : IF MaxSess + 1 - key \in expired
                 THEN [acc EXCEPT !.close = @ \cup {MaxSess + 1 - key}, !.list = SkipRemove(@, key)]
                 ELSE acc,
             [active |-> 0, fresh |-> {}, close |-> {}, list |-> list], Iterate(list))

Cleaned ==
    LET keys == Iterate(list)
        turn[i \in 0 .. Len(keys)] ==
            IF i = 0 THEN [active |-> 0, fresh |-> {}, close |-> {}, list |-> list]
            ELSE CleanStep(turn[i - 1], keys[i])
    IN turn[Len(keys)]

(* Under idleSessionLock; the cleanup goroutine sleeps in between, and ends *)
(* when it finds the client closed.                                         *)
IdleCleanup ==
    /\ cleaner = "on" /\ toClose["cleaner"] = {} /\ expired # {}
    /\ list' = Cleaned.list
    /\ idle' = idle \ Cleaned.close
    /\ expired' = expired \ (Cleaned.close \cup Cleaned.fresh)
    /\ toClose' = [toClose EXCEPT !["cleaner"] = Cleaned.close]
    /\ UNCHANGED <<die, cleaner, sessions, sess, callVars, streamVars>>

CleanerEnds ==
    /\ cleaner = "on" /\ toClose["cleaner"] = {} /\ die # "no"
    /\ cleaner' = "off"
    /\ UNCHANGED <<die, toClose, listVars, sessions, sess, callVars, streamVars>>

CloseClient ==
    /\ die = "no"
    /\ die' = "collect"
    /\ UNCHANGED <<cleaner, toClose, listVars, sessions, sess, callVars, streamVars>>

CollectSessions ==
    /\ die = "collect"
    /\ die' = "close"
    /\ toClose' = [toClose EXCEPT !["client"] = sessions]
    /\ sessions' = {}
    /\ UNCHANGED <<cleaner, listVars, sess, callVars, streamVars>>

(* The collected sessions are closed one after the other.                   *)
CloseOne(w, s) ==
    /\ s \in toClose[w]
    /\ toClose' = [toClose EXCEPT ![w] = @ \ {s}]
    /\ sess' = Closing(s)
    /\ UNCHANGED <<die, cleaner, listVars, sessions, callVars, streamVars>>

Call(t) ==
    \/ CreateStream(t) \/ GetIdleSession(t) \/ Dial(t) \/ TrackSession(t)
    \/ OpenStream(t) \/ SetDieHook(t)
Hook(t) == DieHookChecks(t) \/ DieHookInserts(t)
Closer(s) == RemoveIdle(s) \/ Untrack(s) \/ CloseStreams(s)
Owner == CloseClient \/ CollectSessions \/ IdleCleanup \/ CleanerEnds

Next ==
    \/ \E t \in Streams : Call(t) \/ Forget(t) \/ StreamDies(t) \/ Hook(t)
    \/ \E s \in Sess : SessionDies(s) \/ Closer(s) \/ Expire(s)
    \/ \E w \in {"client", "cleaner"}, s \in Sess : CloseOne(w, s)
    \/ Owner

(* Goroutines run; a user of a stream is done with it some day; what waits  *)
(* on the idle list grows old, and the cleanup comes round.                 *)
Fairness ==
    /\ \A t \in Streams : WF_vars(Call(t)) /\ WF_vars(StreamDies(t)) /\ WF_vars(Hook(t))
    /\ \A s \in Sess : WF_vars(Closer(s))
    /\ WF_vars(\E w \in {"client", "cleaner"}, s \in Sess : CloseOne(w, s))
    /\ WF_vars(CollectSessions)

Spec == Init /\ [][Next]_vars
LiveSpec == Spec /\ Fairness

-----------------------------------------------------------------------------
(* The skip list holds the idle sessions and nothing else, newest first.    *)
ListExact == Represents(list, {Key(s) : s \in idle})

(* The types hold, and the skip list is the set of idle sessions.           *)
PoolInv == TypeOK /\ ListExact

(* A session serves one stream at a time: it is on the list once, and off   *)
(* it before it is handed out.                                              *)
Using(s) == {t \in Streams : on[t] = s /\ (pc[t] \in {"track", "open"} \/ stream[t] = "live")}

OneStreamPerSession ==
    \A s \in Sess : /\ Cardinality(Using(s)) <= 1
                    /\ s \in idle => Using(s) = {}

(* A live session has a user, waits on the list, is on its way there or to  *)
(* its close; only a hook that came too late strands one.                   *)
NoStrandedSession ==
    \A s \in Sess : Live(s) =>
        \/ Using(s) # {} \/ s \in idle
        \/ \E w \in DOMAIN toClose : s \in toClose[w]
        \/ \E t \in Streams : on[t] = s /\ (hook[t] \in {"check", "insert"} \/ Missed(t))

(* Client.Close finds every live session, except one that is being dialled. *)
CloseFindsSessions ==
    \A s \in Sess : Live(s) /\ die \in {"no", "collect"} =>
        s \in sessions \/ \E t \in Streams : on[t] = s /\ pc[t] = "track"

(* Every session has its one place, whatever hooks, closes, hand-outs and   *)
(* the cleanup do (client.go:98, 136, 153).                                 *)
SessionAccounted == OneStreamPerSession /\ NoStrandedSession /\ CloseFindsSessions

(* The cleanup leaves the reserve on the list.                              *)
ReserveKept ==
    [][IdleCleanup => \/ Cardinality(idle') >= MinIdleSession
                      \/ idle' = idle]_vars

(* A closed client is rid of its sessions once their streams have ended.    *)
ClosedClientDrains ==
    die # "no" ~> \A s \in Sess : Live(s) => \E t \in Streams : on[t] = s /\ Missed(t)

(* No hook is ever late.                                                    *)
NoLateHook == \A t \in Streams : Missed(t) => pc[t] = "hook"

(* An idle session is alive, or its close is about to take it off the list. *)
IdleAlive == \A s \in idle : sess[s] \in {"live", "unidle"}

(* FindRange, whose comment excludes the last key.                          *)
RangeExcludesLast == FindRangeExcludesLast(list, {Key(s) : s \in idle})
=============================================================================
