--------------------------- MODULE AnyTLSService ---------------------------
(***************************************************************************)
(* Authentication, tracking and revocation of AnyTLS mux sessions          *)
(* (proxy/anytls/lib/service.go) with the shutdown of a session            *)
(* (Session.Close and SetCloseHook in lib/session/session.go).             *)
(*                                                                         *)
(* Each accepted connection runs NewConnection in its own goroutine.       *)
(* UpdateUsers is called by the controller's two monitors, so two calls    *)
(* may overlap.  A step is one atomic load or store, one critical section  *)
(* of sessionsMu, one sync.Once, or the access to the unsynchronised field *)
(* dieHook.                                                                *)
(***************************************************************************)
EXTENDS Naturals, FiniteSets

CONSTANTS
    Sessions,    \* accepted connections, each at most one mux session
    Passwords,   \* password hashes
    Updaters,    \* goroutines that call UpdateUsers
    None,        \* no session, no hash
    MaxUpdates   \* bound: calls of UpdateUsers

ASSUME ServiceAssumption ==
    /\ None \notin Sessions \cup Passwords
    /\ MaxUpdates \in Nat

VARIABLES
    users,       \* hashes in the user table (atomic.TypedValue)
    sessions,    \* keys of the sessions map
    hash,        \* session -> hash it authenticated with
    pc,          \* NewConnection's next step
    dieHook,     \* sessions whose close hook is set
    dead,        \* sessions whose dieOnce has run
    connClosed,  \* sessions whose underlying connection is closed
    upc,         \* UpdateUsers' next step
    authorized,  \* the table an UpdateUsers call was given
    toClose,     \* sessions kickRevokedSessions still has to close
    closing,     \* the session it is in the middle of closing
    updates

serviceVars == <<users, sessions, hash, pc, dieHook, dead, connClosed,
          upc, authorized, toClose, closing, updates>>
connVars == <<users, upc, authorized, toClose, closing, updates>>
kickVars == <<hash, pc>>

ServiceTypeOK ==
    /\ users \in SUBSET Passwords
    /\ sessions \in SUBSET Sessions
    /\ hash \in [Sessions -> Passwords \cup {None}]
    /\ pc \in [Sessions -> {"new", "authed", "hook", "run", "close", "closeHook",
                            "closeConn", "done"}]
    /\ dieHook \in SUBSET Sessions
    /\ dead \in SUBSET Sessions
    /\ connClosed \in SUBSET Sessions
    /\ upc \in [Updaters -> {"idle", "collect", "kick", "kickHook", "kickConn"}]
    /\ authorized \in [Updaters -> SUBSET Passwords]
    /\ toClose \in [Updaters -> SUBSET Sessions]
    /\ closing \in [Updaters -> Sessions \cup {None}]
    /\ updates \in 0 .. MaxUpdates

(* NewServer builds the service without users; the controller's first       *)
(* UpdateUsers has installed some table before the model starts.            *)
ServiceInit ==
    /\ users \in SUBSET Passwords
    /\ sessions = {}
    /\ hash = [s \in Sessions |-> None]
    /\ pc = [s \in Sessions |-> "new"]
    /\ dieHook = {}
    /\ dead = {}
    /\ connClosed = {}
    /\ upc = [u \in Updaters |-> "idle"]
    /\ authorized = [u \in Updaters |-> {}]
    /\ toClose = [u \in Updaters |-> {}]
    /\ closing = [u \in Updaters |-> None]
    /\ updates = 0

-----------------------------------------------------------------------------
(* NewConnection.                                                           *)

(* The hash is looked up in the table of this moment; an unknown hash goes  *)
(* to the fallback handler and never becomes a session.                     *)
Authenticate(s, h) ==
    /\ pc[s] = "new"
    /\ hash' = [hash EXCEPT ![s] = h]
    /\ pc' = [pc EXCEPT ![s] = IF h \in users THEN "authed" ELSE "done"]
    /\ UNCHANGED <<sessions, dieHook, dead, connClosed, connVars>>

(* The padding that follows the hash is truncated: fallback as well.        *)
HandshakeFails(s) ==
    /\ pc[s] = "authed"
    /\ pc' = [pc EXCEPT ![s] = "done"]
    /\ UNCHANGED <<sessions, hash, dieHook, dead, connClosed, connVars>>

(* trackSession, under sessionsMu.                                          *)
TrackSession(s) ==
    /\ pc[s] = "authed"
    /\ sessions' = sessions \cup {s}
    /\ pc' = [pc EXCEPT ![s] = "hook"]
    /\ UNCHANGED <<hash, dieHook, dead, connClosed, connVars>>

(* trackSession's last statement, after the unlock.                         *)
SetCloseHook(s) ==
    /\ pc[s] = "hook"
    /\ dieHook' = dieHook \cup {s}
    /\ pc' = [pc EXCEPT ![s] = "run"]
    /\ UNCHANGED <<sessions, hash, dead, connClosed, connVars>>

(* Run returns: the peer is gone, or the connection was closed under it.    *)
RunReturns(s) ==
    /\ pc[s] = "run"
    /\ pc' = [pc EXCEPT ![s] = "close"]
    /\ UNCHANGED <<sessions, hash, dieHook, dead, connClosed, connVars>>

(* Session.Close: the first caller passes dieOnce, later ones return.       *)
CloseOnce(s) ==
    /\ pc[s] = "close"
    /\ dead' = dead \cup {s}
    /\ pc' = [pc EXCEPT ![s] = IF s \in dead THEN "done" ELSE "closeHook"]
    /\ UNCHANGED <<sessions, hash, dieHook, connClosed, connVars>>

(* The hook, when one is set, takes the session off the map.                *)
RunHook(s) ==
    /\ sessions' = IF s \in dieHook THEN sessions \ {s} ELSE sessions
    /\ dieHook' = dieHook \ {s}

CloseHook(s) ==
    /\ pc[s] = "closeHook"
    /\ RunHook(s)
    /\ pc' = [pc EXCEPT ![s] = "closeConn"]
    /\ UNCHANGED <<hash, dead, connClosed, connVars>>

CloseSessionConn(s) ==
    /\ pc[s] = "closeConn"
    /\ connClosed' = connClosed \cup {s}
    /\ pc' = [pc EXCEPT ![s] = "done"]
    /\ UNCHANGED <<sessions, hash, dieHook, dead, connVars>>

-----------------------------------------------------------------------------
(* UpdateUsers and kickRevokedSessions.                                     *)

UpdateUsers(u, table) ==
    /\ upc[u] = "idle"
    /\ updates < MaxUpdates
    /\ updates' = updates + 1
    /\ users' = table
    /\ authorized' = [authorized EXCEPT ![u] = table]
    /\ upc' = [upc EXCEPT ![u] = "collect"]
    /\ UNCHANGED <<sessions, dieHook, dead, connClosed, toClose, closing, kickVars>>

(* mutant: only sessions that were ever closed once are collected           *)
RevokedMissesRunning(table) == {s \in sessions : hash[s] \notin table /\ s \in dead}

Revoked(table) == {s \in sessions : hash[s] \notin table}

(* mutant: the collected sessions are dropped from the map at once          *)
KickCollectUntracks(u) ==
    /\ upc[u] = "collect"
    /\ toClose' = [toClose EXCEPT ![u] = Revoked(authorized[u])]
    /\ sessions' = sessions \ Revoked(authorized[u])
    /\ upc' = [upc EXCEPT ![u] = "kick"]
    /\ UNCHANGED <<users, dieHook, dead, connClosed, authorized, closing, updates, kickVars>>

(* The revoked sessions are collected under sessionsMu ...                  *)
KickCollect(u) ==
    /\ upc[u] = "collect"
    /\ toClose' = [toClose EXCEPT ![u] = Revoked(authorized[u])]
    /\ upc' = [upc EXCEPT ![u] = "kick"]
    /\ UNCHANGED <<users, sessions, dieHook, dead, connClosed, authorized, closing, updates,
                   kickVars>>

(* mutant: the session that passed dieOnce is not remembered                *)
KickCloseNil(u, s) ==
    /\ upc[u] = "kick"
    /\ s \in toClose[u]
    /\ toClose' = [toClose EXCEPT ![u] = @ \ {s}]
    /\ dead' = dead \cup {s}
    /\ upc' = [upc EXCEPT ![u] = IF s \in dead THEN "kick" ELSE "kickHook"]
    /\ UNCHANGED <<users, sessions, dieHook, connClosed, authorized, closing, updates,
                   kickVars>>

(* ... and closed one after the other once it is released, in the order of  *)
(* a slice built from a map iteration.                                      *)
KickCloseOnce(u, s) ==
    /\ upc[u] = "kick"
    /\ s \in toClose[u]
    /\ toClose' = [toClose EXCEPT ![u] = @ \ {s}]
    /\ dead' = dead \cup {s}
    /\ closing' = [closing EXCEPT ![u] = s]
    /\ upc' = [upc EXCEPT ![u] = IF s \in dead THEN "kick" ELSE "kickHook"]
    /\ UNCHANGED <<users, sessions, dieHook, connClosed, authorized, updates, kickVars>>

KickHook(u) ==
    /\ upc[u] = "kickHook"
    /\ RunHook(closing[u])
    /\ upc' = [upc EXCEPT ![u] = "kickConn"]
    /\ UNCHANGED <<users, dead, connClosed, authorized, toClose, closing, updates, kickVars>>

KickConn(u) ==
    /\ upc[u] = "kickConn"
    /\ connClosed' = connClosed \cup {closing[u]}
    /\ upc' = [upc EXCEPT ![u] = "kick"]
    /\ UNCHANGED <<users, sessions, dieHook, dead, authorized, toClose, closing, updates,
                   kickVars>>

KickDone(u) ==
    /\ upc[u] = "kick"
    /\ toClose[u] = {}
    /\ upc' = [upc EXCEPT ![u] = "idle"]
    /\ UNCHANGED <<users, sessions, dieHook, dead, connClosed, authorized, toClose, closing,
                   updates, kickVars>>

-----------------------------------------------------------------------------
(* The steps a goroutine takes by itself once its connection is up.         *)
SessionStep(s) ==
    \/ TrackSession(s)
    \/ SetCloseHook(s)
    \/ CloseOnce(s)
    \/ CloseHook(s)
    \/ CloseSessionConn(s)

KickStep(u) ==
    \/ KickCollect(u)
    \/ \E s \in Sessions : KickCloseOnce(u, s)
    \/ KickHook(u)
    \/ KickConn(u)
    \/ KickDone(u)

ServiceNext ==
    \/ \E s \in Sessions : \/ \E h \in Passwords : Authenticate(s, h)
                           \/ HandshakeFails(s)
                           \/ RunReturns(s)
                           \/ SessionStep(s)
    \/ \E u \in Updaters : \/ \E table \in SUBSET Passwords : UpdateUsers(u, table)
                           \/ KickStep(u)

(* Goroutines that can run do run; Run returns once its connection is       *)
(* closed, since every read of it fails.  Nothing forces a client to        *)
(* connect, to leave, or the panel to change the users.                     *)
Fairness ==
    /\ \A s \in Sessions : /\ WF_serviceVars(SessionStep(s))
                           /\ WF_serviceVars(s \in connClosed /\ RunReturns(s))
    /\ \A u \in Updaters : WF_serviceVars(KickStep(u))

ServiceSpec == ServiceInit /\ [][ServiceNext]_serviceVars /\ Fairness

-----------------------------------------------------------------------------
(* A session that is relaying: Run is executing and nobody closed it.       *)
Relaying(s) == pc[s] = "run" /\ s \notin dead

Quiet == \A u \in Updaters : upc[u] = "idle"

(* A relaying session is always in the sessions map, so UpdateUsers can     *)
(* find it: no close hook takes a session off the map before its end.       *)
RelayingTracked == \A s \in Sessions : Relaying(s) => s \in sessions

(* The types hold, and a relaying session is on the map (service.go:95).    *)
ServiceInv == ServiceTypeOK /\ RelayingTracked

(* Every session that is on the map when a call of UpdateUsers that revokes *)
(* it starts to collect is torn down: NewConnection returns and the         *)
(* connection is closed (kickRevokedSessions, Session.Close), whatever      *)
(* overlapping calls and closes do.                                         *)
RevokedTornDown ==
    \A u \in Updaters, s \in Sessions :
        (upc[u] = "collect" /\ s \in sessions /\ hash[s] \notin authorized[u])
            ~> (pc[s] = "done" /\ s \in connClosed)

(* trackSession "before Run so a concurrent UpdateUsers that drops this     *)
(* user can still find and close the session": once no update is under way, *)
(* nobody relays with a revoked password.                                   *)
NoRevokedRelay ==
    Quiet => \A s \in Sessions : Relaying(s) => hash[s] \in users

(* SetCloseHook: the hook is "invoked exactly once when the session is      *)
(* closed", so a finished session is not on the map any more.               *)
FinishedUntracked ==
    Quiet => \A s \in Sessions : pc[s] = "done" => s \notin sessions
=============================================================================
