------------------------- MODULE CertificateProofs -------------------------
(***************************************************************************)
(* Proofs about the certificates of the nodes, for any number of nodes,    *)
(* calls, domains, accounts and faults.                                    *)
(*                                                                         *)
(* The steps of a call are first reduced to what they do to the record of  *)
(* the call (Calls, the lemmas named ...Effect, StepShapes).  Then each    *)
(* part of the state has an invariant of its own: the account files        *)
(* (AccountInv), the pair of each domain (PairInv), the inbounds and what  *)
(* they were built from (BuildInv), the days left (RenewInv) and the       *)
(* environment (EnvInv).                                                   *)
(***************************************************************************)
EXTENDS Certificates, TLAPS, SequenceTheorems

-----------------------------------------------------------------------------
(* The calls under way.                                                     *)
Fields == {"pc", "kind", "node", "resp", "saved", "todo", "k", "reg", "cred", "gen", "solo", "ok"}

IsCall(c) == c = [f \in Fields |-> c[f]]

(* A call has its fields, and is made for a node with certificates.         *)
Calls ==
    /\ calls = [s \in Slot |-> calls[s]]
    /\ local \in Locals /\ next \in 1 .. (Len(Order) + 1)
    /\ hist = [f \in {"crossed", "raced", "spoiled", "lapse"} |-> hist[f]]
    /\ \A s \in Slot : Busy(s) =>
          /\ IsCall(calls[s])
          /\ calls[s].node \in Node /\ Acme(local[calls[s].node])

(* The files a call works with are those of its node.                       *)
LEMMA CallSite ==
  ASSUME Calls, NEW s \in Slot, Busy(s)
  PROVE  DomainOf(s) \in Domain /\ EmailOf(s) \in Email
BY CertAssumption DEF Calls, DomainOf, EmailOf, Cert, Node

(* What a step of a call leaves alone: the other calls, and what this one   *)
(* is for.                                                                  *)
Frame(s) ==
    /\ calls' = [t \in Slot |-> calls'[t]]
    /\ \A t \in Slot : t # s => calls'[t] = calls[t]
    /\ IsCall(calls'[s]) /\ calls'[s].pc # "idle"
    /\ calls'[s].kind = calls[s].kind /\ calls'[s].node = calls[s].node
    /\ calls'[s].resp = calls[s].resp

(* A call on its way out.                                                   *)
Leaves(s, ok) ==
    /\ Frame(s) /\ calls'[s].pc = "leave" /\ calls'[s].todo = {} /\ calls'[s].ok = ok
    /\ calls'[s].k = Absent /\ calls'[s].reg = Absent /\ calls'[s].gen = Absent
    /\ calls'[s].solo = FALSE

(* A call that goes to pc and keeps its fields but for k, reg, gen and cred *)
Moves(s, pc) ==
    /\ Frame(s) /\ calls'[s].pc = pc /\ calls'[s].todo = calls[s].todo
    /\ calls'[s].saved = calls[s].saved
    /\ calls'[s].solo = calls[s].solo /\ calls'[s].ok = calls[s].ok

KeepsKey(s) == calls'[s].k = calls[s].k /\ calls'[s].reg = calls[s].reg
KeepsGen(s) == calls'[s].gen = calls[s].gen

(* What each way of writing a call back does to it.                         *)
LEMMA LeftEffect ==
  ASSUME Calls, NEW s \in Slot, Busy(s), NEW ok, calls' = Left(s, ok)
  PROVE  Leaves(s, ok) /\ calls'[s].saved = calls[s].saved
BY DEF Calls, Left, NewCall, Leaves, Frame, IsCall, Fields, Busy

LEMMA GotoEffect ==
  ASSUME Calls, NEW s \in Slot, Busy(s), NEW pc, pc # "idle", Goto(s, pc)
  PROVE  Moves(s, pc) /\ KeepsKey(s) /\ KeepsGen(s)
BY DEF Calls, Goto, Moves, Frame, IsCall, Fields, Busy, KeepsKey, KeepsGen

LEMMA KeyEffect ==
  ASSUME Calls, NEW s \in Slot, Busy(s), NEW pc, pc # "idle", NEW k,
         calls' = [calls EXCEPT ![s].pc = pc, ![s].k = k]
  PROVE  /\ Moves(s, pc) /\ KeepsGen(s) /\ calls'[s].k = k /\ calls'[s].reg = calls[s].reg
<1> DEFINE c == calls[s]
<1>1. IsCall(c) /\ calls' = [calls EXCEPT ![s] = [c EXCEPT !.pc = pc, !.k = k]]
  BY DEF Calls
<1> HIDE DEF c
<1>2. [c EXCEPT !.pc = pc, !.k = k]
        = [f \in Fields |-> IF f = "pc" THEN pc ELSE IF f = "k" THEN k ELSE c[f]]
  BY <1>1 DEF IsCall, Fields
<1> QED BY <1>1, <1>2 DEF Calls, Moves, Frame, IsCall, Fields, KeepsGen, c

LEMMA RegEffect ==
  ASSUME Calls, NEW s \in Slot, Busy(s), NEW pc, pc # "idle", NEW r,
         calls' = [calls EXCEPT ![s].pc = pc, ![s].reg = r]
  PROVE  /\ Moves(s, pc) /\ KeepsGen(s) /\ calls'[s].reg = r /\ calls'[s].k = calls[s].k
<1> DEFINE c == calls[s]
<1>1. IsCall(c) /\ calls' = [calls EXCEPT ![s] = [c EXCEPT !.pc = pc, !.reg = r]]
  BY DEF Calls
<1> HIDE DEF c
<1>2. [c EXCEPT !.pc = pc, !.reg = r]
        = [f \in Fields |-> IF f = "pc" THEN pc ELSE IF f = "reg" THEN r ELSE c[f]]
  BY <1>1 DEF IsCall, Fields
<1> QED BY <1>1, <1>2 DEF Calls, Moves, Frame, IsCall, Fields, KeepsGen, c

LEMMA GenEffect ==
  ASSUME Calls, NEW s \in Slot, Busy(s), NEW pc, pc # "idle", NEW g,
         calls' = [calls EXCEPT ![s].pc = pc, ![s].gen = g]
  PROVE  Moves(s, pc) /\ KeepsKey(s) /\ calls'[s].gen = g
<1> DEFINE c == calls[s]
<1>1. IsCall(c) /\ calls' = [calls EXCEPT ![s] = [c EXCEPT !.pc = pc, !.gen = g]]
  BY DEF Calls
<1> HIDE DEF c
<1>2. [c EXCEPT !.pc = pc, !.gen = g]
        = [f \in Fields |-> IF f = "pc" THEN pc ELSE IF f = "gen" THEN g ELSE c[f]]
  BY <1>1 DEF IsCall, Fields
<1> QED BY <1>1, <1>2 DEF Calls, Moves, Frame, IsCall, Fields, KeepsKey, c

LEMMA CredEffect ==
  ASSUME Calls, NEW s \in Slot, Busy(s), NEW pc, pc # "idle", NEW r,
         calls' = [calls EXCEPT ![s].cred = r, ![s].pc = pc]
  PROVE  Moves(s, pc) /\ KeepsKey(s) /\ KeepsGen(s)
<1> DEFINE c == calls[s]
<1>1. IsCall(c) /\ calls' = [calls EXCEPT ![s] = [c EXCEPT !.cred = r, !.pc = pc]]
  BY DEF Calls
<1> HIDE DEF c
<1>2. [c EXCEPT !.cred = r, !.pc = pc]
        = [f \in Fields |-> IF f = "cred" THEN r ELSE IF f = "pc" THEN pc ELSE c[f]]
  BY <1>1 DEF IsCall, Fields
<1> QED BY <1>1, <1>2 DEF Calls, Moves, Frame, IsCall, Fields, KeepsKey, KeepsGen, c

(* One more variable set: the value it had is kept.                         *)
LEMMA SetEffect ==
  ASSUME Calls, NEW s \in Slot, Busy(s), NEW x, NEW v,
         calls' = [calls EXCEPT ![s].todo = @ \ {x}, ![s].saved = Append(@, v)]
  PROVE  /\ Frame(s) /\ calls'[s].pc = calls[s].pc /\ KeepsKey(s) /\ KeepsGen(s)
         /\ calls'[s].todo = calls[s].todo \ {x} /\ calls'[s].saved = Append(calls[s].saved, v)
         /\ calls'[s].solo = calls[s].solo /\ calls'[s].ok = calls[s].ok
<1> DEFINE c == calls[s]
           td == c.todo \ {x}
           sv == Append(c.saved, v)
<1>1. IsCall(c) /\ calls' = [calls EXCEPT ![s] = [c EXCEPT !.todo = td, !.saved = sv]]
  BY DEF Calls
<1> HIDE DEF c, td, sv
<1>2. [c EXCEPT !.todo = td, !.saved = sv]
        = [f \in Fields |-> IF f = "todo" THEN td ELSE IF f = "saved" THEN sv ELSE c[f]]
  BY <1>1 DEF IsCall, Fields
<1>3. c = calls[s] /\ td = calls[s].todo \ {x} /\ sv = Append(calls[s].saved, v)  BY DEF c, td, sv
<1> QED BY <1>1, <1>2, <1>3 DEF Calls, Frame, IsCall, Fields, Busy, KeepsKey, KeepsGen

(* A refused variable: the call leaves with nothing to restore.             *)
LEMMA RefusedEffect ==
  ASSUME Calls, NEW s \in Slot, Busy(s),
         calls' = [Left(s, FALSE) EXCEPT ![s].saved = <<>>]
  PROVE  Leaves(s, FALSE) /\ calls'[s].saved = <<>>
<1> DEFINE d == [NewCall(calls[s].node, calls[s].kind, calls[s].resp) EXCEPT
                    !.pc = "leave", !.todo = {}, !.saved = calls[s].saved, !.ok = FALSE]
<1>1. Left(s, FALSE) = [calls EXCEPT ![s] = d]  BY DEF Left, Calls
<1>2. /\ IsCall(d) /\ d.pc = "leave" /\ d.todo = {} /\ d.ok = FALSE /\ d.k = Absent
      /\ d.reg = Absent /\ d.gen = Absent /\ d.solo = FALSE /\ d.kind = calls[s].kind
      /\ d.node = calls[s].node /\ d.resp = calls[s].resp
  BY DEF NewCall, IsCall, Fields
<1> HIDE DEF d
<1>3. calls' = [calls EXCEPT ![s] = [d EXCEPT !.saved = <<>>]]  BY <1>1 DEF Calls
<1>4. [d EXCEPT !.saved = <<>>] = [f \in Fields |-> IF f = "saved" THEN <<>> ELSE d[f]]
  BY <1>2 DEF IsCall, Fields
<1>5. calls'[s] = [f \in Fields |-> IF f = "saved" THEN <<>> ELSE d[f]]
  BY <1>3, <1>4 DEF Calls
<1>6. calls' = [t \in Slot |-> calls'[t]] /\ \A t \in Slot : t # s => calls'[t] = calls[t]
  BY <1>3 DEF Calls
<1>7. IsCall(calls'[s])  BY <1>5 DEF IsCall
<1> QED BY <1>2, <1>5, <1>6, <1>7 DEF Leaves, Frame, Fields

(* One variable restored.                                                   *)
LEMMA RestoreEffect ==
  ASSUME Calls, NEW s \in Slot, Busy(s), calls' = [calls EXCEPT ![s].saved = Front(@)]
  PROVE  /\ Frame(s) /\ calls'[s].pc = calls[s].pc /\ KeepsKey(s) /\ KeepsGen(s)
         /\ calls'[s].todo = calls[s].todo /\ calls'[s].saved = Front(calls[s].saved)
         /\ calls'[s].solo = calls[s].solo /\ calls'[s].ok = calls[s].ok
<1> DEFINE sv == Front(calls[s].saved)
<1>1. calls' = [calls EXCEPT ![s].saved = sv]  BY DEF Calls
<1> HIDE DEF sv
<1> QED BY <1>1 DEF Calls, Frame, IsCall, Fields, Busy, KeepsKey, KeepsGen, sv

(* A save begins: those of the same domain are alone no more.               *)
LEMMA TruncateEffect ==
  ASSUME Calls, NEW s \in Slot, TruncateCrt(s), NEW D, D = Savers(DomainOf(s))
  PROVE  /\ calls' = [t \in Slot |-> calls'[t]]
         /\ \A t \in Slot : /\ calls'[t].pc = IF t = s THEN "crt1" ELSE calls[t].pc
                            /\ Busy(t) => /\ IsCall(calls'[t])
                                          /\ calls'[t].kind = calls[t].kind
                                          /\ calls'[t].node = calls[t].node
                                          /\ calls'[t].resp = calls[t].resp
                                          /\ calls'[t].saved = calls[t].saved
                                          /\ calls'[t].todo = calls[t].todo
                                          /\ calls'[t].ok = calls[t].ok
                                          /\ KeepsKey(t) /\ KeepsGen(t)
                            /\ t \notin D \cup {s} => calls'[t] = calls[t]
                            /\ t \in D /\ t # s => calls'[t].solo = FALSE
         /\ calls'[s].solo = (D = {})
<1> DEFINE so == (D = {})
<1>1. D \subseteq {t \in Slot : Busy(t)}  BY DEF Savers
<1>2. calls' = [t \in Slot |->
                   IF t = s THEN [calls[s] EXCEPT !.pc = "crt1", !.solo = so]
                   ELSE IF t \in D THEN [calls[t] EXCEPT !.solo = FALSE]
                   ELSE calls[t]]
      /\ Busy(s)
  BY DEF TruncateCrt, At, Busy
<1> HIDE DEF so
<1>3. ASSUME NEW c, IsCall(c)
      PROVE  [c EXCEPT !.pc = "crt1", !.solo = so]
               = [f \in Fields |-> IF f = "pc" THEN "crt1" ELSE IF f = "solo" THEN so ELSE c[f]]
  BY <1>3 DEF IsCall, Fields
<1>4. ASSUME NEW c, IsCall(c)
      PROVE  [c EXCEPT !.solo = FALSE] = [f \in Fields |-> IF f = "solo" THEN FALSE ELSE c[f]]
  BY <1>4 DEF IsCall, Fields
<1>5. \A t \in Slot : Busy(t) => IsCall(calls[t])  BY DEF Calls
<1>6. calls'[s] = [f \in Fields |-> IF f = "pc" THEN "crt1" ELSE IF f = "solo" THEN so
                                    ELSE calls[s][f]]
  BY <1>2, <1>3, <1>5
<1>7. \A t \in D : t # s =>
        calls'[t] = [f \in Fields |-> IF f = "solo" THEN FALSE ELSE calls[t][f]]
  BY <1>1, <1>2, <1>4, <1>5
<1>8. \A t \in Slot : t \notin D \cup {s} => calls'[t] = calls[t]  BY <1>2
<1>9. calls' = [t \in Slot |-> calls'[t]]  BY <1>2
<1>10. ASSUME NEW t \in Slot
       PROVE  /\ calls'[t].pc = IF t = s THEN "crt1" ELSE calls[t].pc
              /\ Busy(t) => /\ IsCall(calls'[t])
                            /\ calls'[t].kind = calls[t].kind /\ calls'[t].node = calls[t].node
                            /\ calls'[t].resp = calls[t].resp /\ calls'[t].saved = calls[t].saved
                            /\ calls'[t].todo = calls[t].todo /\ calls'[t].ok = calls[t].ok
                            /\ KeepsKey(t) /\ KeepsGen(t)
              /\ t \in D /\ t # s => calls'[t].solo = FALSE
  <2>1. CASE t = s  BY <1>6, <2>1 DEF IsCall, Fields, KeepsKey, KeepsGen
  <2>2. CASE t # s /\ t \in D
    <3>1. calls'[t] = [f \in Fields |-> IF f = "solo" THEN FALSE ELSE calls[t][f]]
      BY <1>7, <2>2
    <3> QED BY <2>2, <3>1 DEF IsCall, Fields, KeepsKey, KeepsGen
  <2>3. CASE t \notin D \cup {s}  BY <1>5, <1>8, <2>3 DEF KeepsKey, KeepsGen
  <2> QED BY <2>1, <2>2, <2>3
<1>11. calls'[s].solo = so  BY <1>6 DEF Fields
<1> QED BY <1>8, <1>9, <1>10, <1>11 DEF so

-----------------------------------------------------------------------------
(* The actions of a call, by what they do to the calls and to what excuses *)
(* the properties.                                                          *)
HistTo(c, r, sp, m) == hist' = [crossed |-> c, raced |-> r, spoiled |-> sp, lapse |-> m]

Panics(s) ==
    /\ Leaves(s, FALSE) /\ calls'[s].saved = calls[s].saved
    /\ HistTo(hist.crossed, hist.raced, hist.spoiled \cup Cut({s}), hist.lapse)

(* The steps by what they do, one lemma per action.                         *)
LEMMA PanicEffect ==
  ASSUME Calls, NEW s \in Slot, Busy(s), Panic(s)
  PROVE  Panics(s)
<1>1. Leaves(s, FALSE) /\ calls'[s].saved = calls[s].saved  BY LeftEffect DEF Panic
<1> DEFINE C == Cut({s})
<1>2. hist' = [hist EXCEPT !.spoiled = @ \cup C]  BY DEF Panic
<1> HIDE DEF C
<1>3. HistTo(hist.crossed, hist.raced, hist.spoiled \cup C, hist.lapse)
  BY <1>2 DEF Calls, HistTo
<1> QED BY <1>1, <1>3 DEF Panics, C

(* What the environment comes to when x is refused.                         *)
Refuses(s, x) == x \in BadKey \/ Cert(calls[s].node).DNSEnv[x] \in BadValue

LEMMA ApplyEffect ==
  ASSUME Calls, NEW s \in Slot, ApplyDNSEnv(s)
  PROVE  /\ Busy(s) /\ calls[s].pc = "env" /\ UNCHANGED <<local, nodes, files, faults>>
         /\ \E x \in calls[s].todo :
              \/ /\ Refuses(s, x) /\ Leaves(s, FALSE) /\ calls'[s].saved = <<>>
                 /\ env' = IF x \in BadKey THEN env ELSE RolledBack(calls[s].saved)
                 /\ hist' = hist
              \/ /\ ~Refuses(s, x) /\ Frame(s) /\ calls'[s].pc = "env"
                 /\ KeepsKey(s) /\ KeepsGen(s)
                 /\ calls'[s].todo = calls[s].todo \ {x}
                 /\ calls'[s].saved = Append(calls[s].saved, <<x, env[x]>>)
                 /\ calls'[s].solo = calls[s].solo /\ calls'[s].ok = calls[s].ok
                 /\ env' = [env EXCEPT ![x] = Cert(calls[s].node).DNSEnv[x]]
                 /\ HistTo(hist.crossed \/ (\E t \in Slot \ {s} : Holds(t)), hist.raced,
                           hist.spoiled, hist.lapse)
<1>1. Busy(s) /\ calls[s].pc = "env" /\ UNCHANGED <<local, nodes, files, faults>>
  BY DEF ApplyDNSEnv, At, Busy
<1>2. PICK x \in calls[s].todo :
        IF Refuses(s, x)
        THEN /\ calls' = [Left(s, FALSE) EXCEPT ![s].saved = <<>>]
             /\ env' = IF x \in BadKey THEN env ELSE RolledBack(calls[s].saved)
             /\ UNCHANGED hist
        ELSE /\ calls' = [calls EXCEPT ![s].todo = @ \ {x},
                                       ![s].saved = Append(@, <<x, env[x]>>)]
             /\ env' = [env EXCEPT ![x] = Cert(calls[s].node).DNSEnv[x]]
             /\ hist' = [hist EXCEPT !.crossed = @ \/ \E t \in Slot \ {s} : Holds(t)]
  BY DEF ApplyDNSEnv, Refuses
<1>3. CASE Refuses(s, x)
  <2>1. Leaves(s, FALSE) /\ calls'[s].saved = <<>>  BY <1>1, <1>2, <1>3, RefusedEffect
  <2> QED BY <1>1, <1>2, <1>3, <2>1
<1>4. CASE ~Refuses(s, x)
  <2>1. /\ Frame(s) /\ calls'[s].pc = calls[s].pc /\ KeepsKey(s) /\ KeepsGen(s)
        /\ calls'[s].todo = calls[s].todo \ {x}
        /\ calls'[s].saved = Append(calls[s].saved, <<x, env[x]>>)
        /\ calls'[s].solo = calls[s].solo /\ calls'[s].ok = calls[s].ok
    <3>1. calls' = [calls EXCEPT ![s].todo = @ \ {x}, ![s].saved = Append(@, <<x, env[x]>>)]
      BY <1>2, <1>4
    <3> QED BY <1>1, <3>1, SetEffect
  <2> DEFINE C == \E t \in Slot \ {s} : Holds(t)
  <2>2. hist' = [hist EXCEPT !.crossed = @ \/ C]  BY <1>2, <1>4
  <2> HIDE DEF C
  <2>3. HistTo(hist.crossed \/ C, hist.raced, hist.spoiled, hist.lapse)
    BY <2>2 DEF Calls, HistTo
  <2> QED BY <1>1, <1>2, <1>4, <2>1, <2>3 DEF C
<1> QED BY <1>3, <1>4

LEMMA FirstCheckEffect ==
  ASSUME Calls, NEW s \in Slot, FirstCheck(s)
  PROVE  /\ Busy(s) /\ calls[s].pc = "env" /\ calls[s].todo = {} /\ calls[s].kind # "renew"
         /\ UNCHANGED <<local, nodes, env, files, faults, hist>>
         /\ \/ /\ checkCertfile(DomainOf(s)) /\ Leaves(s, TRUE)
               /\ calls'[s].saved = calls[s].saved
            \/ Moves(s, "key") /\ KeepsKey(s) /\ KeepsGen(s)
<1>1. /\ Busy(s) /\ calls[s].pc = "env" /\ calls[s].todo = {} /\ calls[s].kind # "renew"
      /\ UNCHANGED <<local, nodes, env, files, faults, hist>>
  BY DEF FirstCheck, At, Busy
<1>2. CASE checkCertfile(DomainOf(s))
  <2>1. calls' = Left(s, TRUE)  BY <1>2 DEF FirstCheck
  <2> QED BY <1>1, <1>2, <2>1, LeftEffect
<1>3. CASE ~checkCertfile(DomainOf(s))
  <2>1. Goto(s, "key")  BY <1>3 DEF FirstCheck, Goto
  <2> QED BY <1>1, <2>1, GotoEffect
<1> QED BY <1>2, <1>3

LEMMA GetPrivateKeyEffect ==
  ASSUME Calls, NEW s \in Slot, GetPrivateKey(s)
  PROVE  /\ Busy(s) /\ calls[s].pc \in {"key", "env"}
         /\ calls[s].pc = "env" => calls[s].todo = {}
         /\ UNCHANGED <<local, nodes, env, files, faults>>
         /\ \/ /\ akey[EmailOf(s)] = Absent
               /\ Moves(s, "create") /\ KeepsKey(s) /\ KeepsGen(s)
               /\ HistTo(hist.crossed,
                         IF \E t \in Slot \ {s} : /\ Busy(t) /\ EmailOf(t) = EmailOf(s)
                                                  /\ At(t, "create")
                         THEN hist.raced \cup {EmailOf(s)} ELSE hist.raced,
                         hist.spoiled, hist.lapse)
            \/ akey[EmailOf(s)] = Torn /\ Panics(s)
            \/ /\ akey[EmailOf(s)] \notin {Absent, Torn}
               /\ Moves(s, "account") /\ KeepsGen(s) /\ calls'[s].k = akey[EmailOf(s)]
               /\ calls'[s].reg = calls[s].reg /\ hist' = hist
<1> DEFINE e == EmailOf(s)
           C == \E t \in Slot \ {s} : Busy(t) /\ EmailOf(t) = e /\ At(t, "create")
<1>1. /\ Busy(s) /\ calls[s].pc \in {"key", "env"}
      /\ calls[s].pc = "env" => calls[s].todo = {}
      /\ UNCHANGED <<local, nodes, env, files, faults>>
  BY DEF GetPrivateKey, At, Busy
<1>2. CASE akey[e] = Absent
  <2>1. /\ Goto(s, "create")
        /\ hist' = [hist EXCEPT !.raced = IF C THEN @ \cup {e} ELSE @]
    BY <1>2 DEF GetPrivateKey, KeyMissing
  <2>2. Moves(s, "create") /\ KeepsKey(s) /\ KeepsGen(s)  BY <1>1, <2>1, GotoEffect
  <2> HIDE DEF C
  <2>3. HistTo(hist.crossed, IF C THEN hist.raced \cup {e} ELSE hist.raced, hist.spoiled,
               hist.lapse)
    BY <2>1 DEF Calls, HistTo
  <2> QED BY <1>1, <1>2, <2>2, <2>3 DEF C
<1>3. CASE akey[e] = Torn
  <2>1. Panic(s)  BY <1>3 DEF GetPrivateKey, KeyMissing, Absent, Torn
  <2> QED BY <1>1, <1>3, <2>1, PanicEffect
<1>4. CASE akey[e] \notin {Absent, Torn}
  <2>1. /\ calls' = [calls EXCEPT ![s].pc = "account", ![s].k = akey[e]] /\ hist' = hist
    BY <1>4 DEF GetPrivateKey, KeyMissing
  <2>2. /\ Moves(s, "account") /\ KeepsGen(s) /\ calls'[s].k = akey[e]
        /\ calls'[s].reg = calls[s].reg
    BY <1>1, <2>1, KeyEffect
  <2> QED BY <1>1, <1>4, <2>1, <2>2
<1> QED BY <1>2, <1>3, <1>4

LEMMA CreateKeyFileEffect ==
  ASSUME Calls, NEW s \in Slot, CreateKeyFile(s)
  PROVE  /\ Busy(s) /\ calls[s].pc = "create" /\ Moves(s, "encode") /\ KeepsGen(s)
         /\ keys' = keys + 1 /\ akey' = [akey EXCEPT ![EmailOf(s)] = Torn]
         /\ calls'[s].k = keys + 1 /\ calls'[s].reg = calls[s].reg
         /\ UNCHANGED <<local, nodes, env, crt, key, days, acct, issued, faults, hist>>
<1>1. /\ Busy(s) /\ calls[s].pc = "create"
      /\ calls' = [calls EXCEPT ![s].pc = "encode", ![s].k = keys + 1]
      /\ keys' = keys + 1 /\ akey' = [akey EXCEPT ![EmailOf(s)] = Torn]
      /\ UNCHANGED <<local, nodes, env, crt, key, days, acct, issued, faults, hist>>
  BY DEF CreateKeyFile, At, Busy
<1> QED BY <1>1, KeyEffect

LEMMA EncodeKeyEffect ==
  ASSUME Calls, NEW s \in Slot, EncodeKey(s)
  PROVE  /\ Busy(s) /\ calls[s].pc = "encode" /\ Moves(s, "account") /\ KeepsKey(s) /\ KeepsGen(s)
         /\ akey' = [akey EXCEPT ![EmailOf(s)] = calls[s].k]
         /\ UNCHANGED <<local, nodes, env, crt, key, days, acct, issued, keys, faults, hist>>
<1>1. /\ Busy(s) /\ calls[s].pc = "encode" /\ Goto(s, "account")
      /\ akey' = [akey EXCEPT ![EmailOf(s)] = calls[s].k]
      /\ UNCHANGED <<local, nodes, env, crt, key, days, acct, issued, keys, faults, hist>>
  BY DEF EncodeKey, At, Busy
<1> QED BY <1>1, GotoEffect

LEMMA LoadAccountEffect ==
  ASSUME Calls, NEW s \in Slot, LoadAccount(s)
  PROVE  /\ Busy(s) /\ calls[s].pc = "account"
         /\ UNCHANGED <<local, nodes, env, files, faults>>
         /\ \/ Panics(s)
            \/ /\ Moves(s, "provider") /\ KeepsGen(s) /\ calls'[s].k = calls[s].k
               /\ acct[EmailOf(s)] # Torn /\ calls'[s].reg = acct[EmailOf(s)] /\ hist' = hist
<1>1. Busy(s) /\ calls[s].pc = "account" /\ UNCHANGED <<local, nodes, env, files, faults>>
  BY DEF LoadAccount, At, Busy
<1>2. CASE Panic(s)  BY <1>1, <1>2, PanicEffect
<1>3. CASE ~Panic(s)
  <2>1. /\ calls' = [calls EXCEPT ![s].pc = "provider", ![s].reg = acct[EmailOf(s)]]
        /\ acct[EmailOf(s)] # Torn /\ hist' = hist
    BY <1>3 DEF LoadAccount, AccountFile
  <2> QED BY <1>1, <2>1, RegEffect
<1> QED BY <1>2, <1>3

LEMMA SetupChallengesEffect ==
  ASSUME Calls, NEW s \in Slot, SetupChallenges(s)
  PROVE  /\ Busy(s) /\ calls[s].pc = "provider"
         /\ UNCHANGED <<local, nodes, env, files, faults>>
         /\ \/ Panics(s)
            \/ /\ \/ Moves(s, "renew") /\ calls[s].kind = "renew" /\ calls[s].reg # Absent
                  \/ Moves(s, "register") /\ calls[s].kind # "renew" /\ calls[s].reg = Absent
                  \/ Moves(s, "obtain") /\ calls[s].kind # "renew" /\ calls[s].reg # Absent
               /\ KeepsKey(s) /\ KeepsGen(s) /\ hist' = hist
<1> DEFINE c == calls[s]
           pc == CASE c.kind = "renew" -> "renew"
                   [] c.kind # "renew" /\ c.reg = Absent -> "register"
                   [] OTHER -> "obtain"
           cred == Credentials(c.node)
<1>1. Busy(s) /\ c.pc = "provider" /\ UNCHANGED <<local, nodes, env, files, faults>>
  BY DEF SetupChallenges, At, Busy
<1>2. CASE Panic(s)  BY <1>1, <1>2, PanicEffect
<1>3. CASE ~Panic(s)
  <2>1. /\ calls' = [calls EXCEPT ![s].cred = cred, ![s].pc = pc] /\ hist' = hist
        /\ ~(c.kind = "renew" /\ c.reg = Absent)
    BY <1>3 DEF SetupChallenges
  <2>2. pc # "idle" /\ \/ pc = "renew" /\ c.kind = "renew" /\ c.reg # Absent
                       \/ pc = "register" /\ c.kind # "renew" /\ c.reg = Absent
                       \/ pc = "obtain" /\ c.kind # "renew" /\ c.reg # Absent
    BY <2>1
  <2> HIDE DEF pc, cred
  <2>3. Moves(s, pc) /\ KeepsKey(s) /\ KeepsGen(s)  BY <1>1, <2>1, <2>2, CredEffect
  <2> QED BY <1>1, <2>1, <2>2, <2>3
<1> QED BY <1>2, <1>3

LEMMA RegisterEffect ==
  ASSUME Calls, NEW s \in Slot, Register(s)
  PROVE  /\ Busy(s) /\ calls[s].pc = "register" /\ Moves(s, "save") /\ KeepsGen(s)
         /\ calls'[s].reg = calls[s].k /\ calls'[s].k = calls[s].k
         /\ acct' = [acct EXCEPT ![EmailOf(s)] = Torn]
         /\ UNCHANGED <<local, nodes, env, crt, key, days, akey, issued, keys, faults, hist>>
<1>1. /\ Busy(s) /\ calls[s].pc = "register"
      /\ calls' = [calls EXCEPT ![s].pc = "save", ![s].reg = calls[s].k]
      /\ acct' = [acct EXCEPT ![EmailOf(s)] = Torn]
      /\ UNCHANGED <<local, nodes, env, crt, key, days, akey, issued, keys, faults, hist>>
  BY DEF Register, At, Busy
<1>2. /\ Moves(s, "save") /\ KeepsGen(s) /\ calls'[s].reg = calls[s].k
      /\ calls'[s].k = calls[s].k
  <2> DEFINE r == calls[s].k
  <2>1. Busy(s) /\ calls' = [calls EXCEPT ![s].pc = "save", ![s].reg = r]  BY <1>1
  <2> HIDE DEF r
  <2>2. /\ Moves(s, "save") /\ KeepsGen(s) /\ calls'[s].reg = r /\ calls'[s].k = calls[s].k
    BY <2>1, RegEffect
  <2> QED BY <2>2 DEF r
<1> QED BY <1>1, <1>2

LEMMA SaveAccountEffect ==
  ASSUME Calls, NEW s \in Slot, SaveAccount(s)
  PROVE  /\ Busy(s) /\ calls[s].pc = "save" /\ Moves(s, "obtain") /\ KeepsKey(s) /\ KeepsGen(s)
         /\ acct' = [acct EXCEPT ![EmailOf(s)] = calls[s].reg]
         /\ UNCHANGED <<local, nodes, env, crt, key, days, akey, issued, keys, faults, hist>>
<1>1. /\ Busy(s) /\ calls[s].pc = "save" /\ Goto(s, "obtain")
      /\ acct' = [acct EXCEPT ![EmailOf(s)] = calls[s].reg]
      /\ UNCHANGED <<local, nodes, env, crt, key, days, akey, issued, keys, faults, hist>>
  BY DEF SaveAccount, At, Busy
<1> QED BY <1>1, GotoEffect

LEMMA RenewForDomainsEffect ==
  ASSUME Calls, NEW s \in Slot, RenewForDomains(s)
  PROVE  /\ Busy(s) /\ calls[s].pc = "renew" /\ UNCHANGED <<local, nodes, env, files, faults>>
         /\ \/ Panics(s)
            \/ Moves(s, "obtain") /\ KeepsKey(s) /\ KeepsGen(s) /\ hist' = hist
            \/ /\ ~needRenewal(DomainOf(s)) /\ crt[DomainOf(s)] \notin {Absent, Torn}
               /\ Leaves(s, TRUE) /\ calls'[s].saved = calls[s].saved /\ hist' = hist
<1>1. Busy(s) /\ calls[s].pc = "renew" /\ UNCHANGED <<local, nodes, env, files, faults>>
  BY DEF RenewForDomains, At, Busy
<1>2. CASE Panic(s)  BY <1>1, <1>2, PanicEffect
<1>3. CASE ~Panic(s) /\ needRenewal(DomainOf(s))
  <2>1. Goto(s, "obtain") /\ hist' = hist  BY <1>3 DEF RenewForDomains, Goto
  <2> QED BY <1>1, <2>1, GotoEffect
<1>4. CASE ~Panic(s) /\ ~needRenewal(DomainOf(s))
  <2>1. calls' = Left(s, TRUE) /\ hist' = hist /\ crt[DomainOf(s)] \notin {Absent, Torn}
    BY <1>4 DEF RenewForDomains
  <2> QED BY <1>1, <1>4, <2>1, LeftEffect
<1> QED BY <1>2, <1>3, <1>4

LEMMA ObtainEffect ==
  ASSUME Calls, NEW s \in Slot, Obtain(s)
  PROVE  /\ Busy(s) /\ calls[s].pc = "obtain"
         /\ UNCHANGED <<local, nodes, env, crt, key, days, akey, acct, keys, faults>>
         /\ \/ Panics(s) /\ issued' = issued
            \/ /\ Moves(s, "crt0") /\ KeepsKey(s) /\ calls'[s].gen = issued + 1
               /\ issued' = issued + 1 /\ hist' = hist
<1>1. /\ Busy(s) /\ calls[s].pc = "obtain"
      /\ UNCHANGED <<local, nodes, env, crt, key, days, akey, acct, keys, faults>>
      /\ \/ Panic(s) /\ issued' = issued
         \/ /\ calls' = [calls EXCEPT ![s].pc = "crt0", ![s].gen = issued + 1]
            /\ issued' = issued + 1 /\ hist' = hist
  BY DEF Obtain, At, Busy
<1>2. CASE Panic(s) /\ issued' = issued  BY <1>1, <1>2, PanicEffect
<1>3. CASE /\ calls' = [calls EXCEPT ![s].pc = "crt0", ![s].gen = issued + 1]
           /\ issued' = issued + 1 /\ hist' = hist
  BY <1>1, <1>3, GenEffect
<1> QED BY <1>1, <1>2, <1>3

LEMMA TruncateHist ==
  ASSUME Calls, NEW s \in Slot, TruncateCrt(s)
  PROVE  /\ Busy(s) /\ calls[s].pc = "crt0"
         /\ crt' = [crt EXCEPT ![DomainOf(s)] = Torn]
         /\ UNCHANGED <<local, nodes, env, key, days, akey, acct, issued, keys, faults>>
         /\ HistTo(hist.crossed, hist.raced,
                   IF Savers(DomainOf(s)) = {} THEN hist.spoiled
                   ELSE hist.spoiled \cup {DomainOf(s)},
                   hist.lapse)
<1> DEFINE d == DomainOf(s)
           C == Savers(d) = {}
<1>1. /\ Busy(s) /\ calls[s].pc = "crt0" /\ crt' = [crt EXCEPT ![d] = Torn]
      /\ UNCHANGED <<local, nodes, env, key, days, akey, acct, issued, keys, faults>>
      /\ hist' = IF C THEN hist ELSE [hist EXCEPT !.spoiled = @ \cup {d}]
  BY DEF TruncateCrt, At, Busy
<1> HIDE DEF C, d
<1>2. HistTo(hist.crossed, hist.raced, IF C THEN hist.spoiled ELSE hist.spoiled \cup {d},
             hist.lapse)
  BY <1>1 DEF Calls, HistTo
<1> QED BY <1>1, <1>2 DEF C, d

LEMMA WriteCrtEffect ==
  ASSUME Calls, NEW s \in Slot, WriteCrt(s)
  PROVE  /\ Busy(s) /\ calls[s].pc = "crt1" /\ Moves(s, "key0") /\ KeepsKey(s) /\ KeepsGen(s)
         /\ crt' = [crt EXCEPT ![DomainOf(s)] = calls[s].gen]
         /\ days' = [days EXCEPT ![DomainOf(s)] = Lifetime]
         /\ UNCHANGED <<local, nodes, env, key, akey, acct, issued, keys, faults, hist>>
<1>1. /\ Busy(s) /\ calls[s].pc = "crt1" /\ Goto(s, "key0")
      /\ crt' = [crt EXCEPT ![DomainOf(s)] = calls[s].gen]
      /\ days' = [days EXCEPT ![DomainOf(s)] = Lifetime]
      /\ UNCHANGED <<local, nodes, env, key, akey, acct, issued, keys, faults, hist>>
  BY DEF WriteCrt, At, Busy
<1> QED BY <1>1, GotoEffect

LEMMA TruncateKeyEffect ==
  ASSUME Calls, NEW s \in Slot, TruncateKey(s)
  PROVE  /\ Busy(s) /\ calls[s].pc = "key0" /\ Moves(s, "key1") /\ KeepsKey(s) /\ KeepsGen(s)
         /\ key' = [key EXCEPT ![DomainOf(s)] = Torn]
         /\ UNCHANGED <<local, nodes, env, crt, days, akey, acct, issued, keys, faults, hist>>
<1>1. /\ Busy(s) /\ calls[s].pc = "key0" /\ Goto(s, "key1")
      /\ key' = [key EXCEPT ![DomainOf(s)] = Torn]
      /\ UNCHANGED <<local, nodes, env, crt, days, akey, acct, issued, keys, faults, hist>>
  BY DEF TruncateKey, At, Busy
<1> QED BY <1>1, GotoEffect

LEMMA WriteKeyEffect ==
  ASSUME Calls, NEW s \in Slot, WriteKey(s)
  PROVE  /\ Busy(s) /\ calls[s].pc = "key1" /\ Moves(s, "recheck") /\ KeepsKey(s) /\ KeepsGen(s)
         /\ key' = [key EXCEPT ![DomainOf(s)] = calls[s].gen]
         /\ UNCHANGED <<local, nodes, env, crt, days, akey, acct, issued, keys, faults>>
         /\ HistTo(hist.crossed, hist.raced,
                   IF calls[s].solo THEN hist.spoiled \ {DomainOf(s)} ELSE hist.spoiled,
                   hist.lapse)
<1> DEFINE d == DomainOf(s)
<1>1. /\ Busy(s) /\ calls[s].pc = "key1" /\ Goto(s, "recheck")
      /\ key' = [key EXCEPT ![d] = calls[s].gen]
      /\ UNCHANGED <<local, nodes, env, crt, days, akey, acct, issued, keys, faults>>
      /\ hist' = IF calls[s].solo THEN [hist EXCEPT !.spoiled = @ \ {d}] ELSE hist
  BY DEF WriteKey, At, Busy
<1>2. Moves(s, "recheck") /\ KeepsKey(s) /\ KeepsGen(s)  BY <1>1, GotoEffect
<1> HIDE DEF d
<1>3. HistTo(hist.crossed, hist.raced, IF calls[s].solo THEN hist.spoiled \ {d} ELSE hist.spoiled,
             hist.lapse)
  BY <1>1 DEF Calls, HistTo
<1> QED BY <1>1, <1>2, <1>3 DEF d

LEMMA LastCheckEffect ==
  ASSUME Calls, NEW s \in Slot, LastCheck(s)
  PROVE  /\ Busy(s) /\ calls[s].pc = "recheck"
         /\ Leaves(s, checkCertfile(DomainOf(s))) /\ calls'[s].saved = calls[s].saved
         /\ UNCHANGED <<local, nodes, env, files, faults, hist>>
<1>1. /\ Busy(s) /\ calls[s].pc = "recheck" /\ calls' = Left(s, checkCertfile(DomainOf(s)))
      /\ UNCHANGED <<local, nodes, env, files, faults, hist>>
  BY DEF LastCheck, At, Busy
<1> QED BY <1>1, LeftEffect

LEMMA CleanupEffect ==
  ASSUME Calls, NEW s \in Slot, Cleanup(s)
  PROVE  /\ Busy(s) /\ calls[s].pc = "leave" /\ calls[s].saved # <<>>
         /\ Frame(s) /\ calls'[s].pc = "leave" /\ KeepsKey(s) /\ KeepsGen(s)
         /\ calls'[s].todo = calls[s].todo /\ calls'[s].saved = Front(calls[s].saved)
         /\ calls'[s].solo = calls[s].solo /\ calls'[s].ok = calls[s].ok
         /\ env' = Restored(Last(calls[s].saved))
         /\ UNCHANGED <<local, nodes, files, faults, hist>>
<1>1. /\ Busy(s) /\ calls[s].pc = "leave" /\ calls[s].saved # <<>>
      /\ env' = Restored(Last(calls[s].saved))
      /\ calls' = [calls EXCEPT ![s].saved = Front(@)]
      /\ UNCHANGED <<local, nodes, files, faults, hist>>
  BY DEF Cleanup, At, Busy
<1> QED BY <1>1, RestoreEffect

(* A call that is over.                                                     *)
Over(s) == /\ calls' = [t \in Slot |-> calls'[t]]
           /\ \A t \in Slot : t # s => calls'[t] = calls[t]
           /\ calls'[s].pc = "idle"

LEMMA ReturnEffect ==
  ASSUME Calls, NEW s \in Slot, Return(s)
  PROVE  LET c == calls[s] IN
         /\ Busy(s) /\ c.pc = "leave" /\ c.saved = <<>> /\ Over(s)
         /\ UNCHANGED <<local, env, files, made, faults>>
         /\ IF c.kind = "renew"
            THEN UNCHANGED <<next, resp, inbound, due>>
            ELSE Built(c.node, c.resp, c.ok, c.kind)
         /\ HistTo(hist.crossed /\ (env # InitEnv \/ \E t \in Slot : Holds(t)), hist.raced,
                   hist.spoiled,
                   IF c.kind = "renew" /\ c.ok THEN [hist.lapse EXCEPT ![DomainOf(s)] = 0]
                   ELSE hist.lapse)
<1> DEFINE c == calls[s]
           d == DomainOf(s)
           C == env # InitEnv \/ \E t \in Slot : Holds(t)
           m == IF c.kind = "renew" /\ c.ok THEN [hist.lapse EXCEPT ![d] = 0] ELSE hist.lapse
<1>1. /\ Busy(s) /\ c.pc = "leave" /\ c.saved = <<>> /\ calls' = [calls EXCEPT ![s] = Idle]
      /\ UNCHANGED <<local, env, files, made, faults>>
      /\ IF c.kind = "renew"
         THEN UNCHANGED <<next, resp, inbound, due>>
         ELSE Built(c.node, c.resp, c.ok, c.kind)
      /\ hist' = [hist EXCEPT !.crossed = @ /\ C,
                              !.lapse = IF c.kind = "renew" /\ c.ok
                                        THEN [@ EXCEPT ![d] = 0] ELSE @]
  BY DEF Return, At, Busy
<1>2. Over(s)  BY <1>1 DEF Calls, Over, Idle
<1>3. HistTo(hist.crossed /\ C, hist.raced, hist.spoiled, m)
  <2> DEFINE cr == hist.crossed /\ C
  <2>1. hist' = [hist EXCEPT !.crossed = cr, !.lapse = m]
    <3> HIDE DEF C, d, c
    <3> QED BY <1>1
  <2> HIDE DEF m, cr
  <2>2. HistTo(cr, hist.raced, hist.spoiled, m)  BY <2>1 DEF Calls, HistTo
  <2> QED BY <2>2 DEF cr
<1> QED BY <1>1, <1>2, <1>3

(* A day that passes is one more since the last renewal.                    *)
DayLapse == [d \in Domain |-> IF hist.lapse[d] > RenewDays THEN hist.lapse[d]
                              ELSE hist.lapse[d] + 1]

LEMMA DayHist ==
  ASSUME Calls, DayPasses
  PROVE  /\ HistTo(hist.crossed, hist.raced, hist.spoiled, DayLapse)
         /\ hist'.crossed = hist.crossed /\ hist'.raced = hist.raced
         /\ hist'.spoiled = hist.spoiled /\ hist'.lapse = DayLapse
<1> DEFINE m == DayLapse
<1>1. hist' = [hist EXCEPT !.lapse = m]  BY DEF DayPasses, DayLapse, Calls
<1> HIDE DEF m
<1>2. HistTo(hist.crossed, hist.raced, hist.spoiled, m)  BY <1>1 DEF Calls, HistTo
<1>3. /\ hist'.crossed = hist.crossed /\ hist'.raced = hist.raced
      /\ hist'.spoiled = hist.spoiled /\ hist'.lapse = m
  BY <1>2 DEF HistTo
<1> QED BY <1>2, <1>3 DEF m

LEMMA FailsEffect ==
  ASSUME Calls, NEW s \in Slot, Fails(s)
  PROVE  /\ Busy(s) /\ Panics(s) /\ UNCHANGED <<local, nodes, env, files>>
<1>1. Busy(s) /\ Panic(s) /\ UNCHANGED <<local, nodes, env, files>>
  BY DEF Fails, Fallible, Busy
<1> QED BY <1>1, PanicEffect

-----------------------------------------------------------------------------
(* The steps by their shape.                                                *)

(* A call made, in a slot that was free.                                    *)
Made(n, kind, r) ==
    \E s \in Slot :
        /\ ~Busy(s) /\ calls' = [t \in Slot |-> calls'[t]]
        /\ \A t \in Slot : t # s => calls'[t] = calls[t]
        /\ calls'[s] = NewCall(n, kind, r)

LEMMA BeginEffect ==
  ASSUME Calls, NEW n, NEW kind, NEW r, Begin(n, kind, r)
  PROVE  Made(n, kind, r)
BY DEF Begin, Calls, Made

(* A new call holds nothing and has done nothing.                           *)
LEMMA NewCallFields ==
  ASSUME NEW n, NEW kind, NEW r, NEW c, c = NewCall(n, kind, r)
  PROVE  /\ IsCall(c) /\ c.pc \in {"env", "leave"} /\ c.kind = kind /\ c.node = n /\ c.resp = r
         /\ c.saved = <<>> /\ c.todo \subseteq DOMAIN Cert(n).DNSEnv
         /\ c.k = Absent /\ c.reg = Absent /\ c.gen = Absent /\ c.solo = FALSE /\ c.ok = FALSE
BY DEF NewCall, IsCall, Fields

(* Only SaveResource's first step touches other calls, and only a return    *)
(* the nodes.                                                               *)
LEMMA StepShapes ==
  ASSUME Calls, NEW s \in Slot, Step(s)
  PROVE  /\ Busy(s) /\ local' = local
         /\ \/ Frame(s) /\ UNCHANGED nodes
            \/ Return(s) /\ Over(s)
            \/ TruncateCrt(s) /\ UNCHANGED nodes
         /\ hist' = [f \in {"crossed", "raced", "spoiled", "lapse"} |-> hist'[f]]
<1>1. ApplyDNSEnv(s) => /\ Busy(s) /\ UNCHANGED <<local, nodes>> /\ Frame(s)
                        /\ hist' = hist \/ \E c, r, sp, m : HistTo(c, r, sp, m)
  BY ApplyEffect DEF Leaves
<1>2. FirstCheck(s) => /\ Busy(s) /\ UNCHANGED <<local, nodes>> /\ Frame(s) /\ hist' = hist
  BY FirstCheckEffect DEF Leaves, Moves
<1>3. GetPrivateKey(s) => /\ Busy(s) /\ UNCHANGED <<local, nodes>> /\ Frame(s)
                          /\ hist' = hist \/ \E c, r, sp, m : HistTo(c, r, sp, m)
  BY GetPrivateKeyEffect DEF Leaves, Moves, Panics
<1>4. CreateKeyFile(s) => Busy(s) /\ UNCHANGED <<local, nodes>> /\ Frame(s) /\ hist' = hist
  BY CreateKeyFileEffect DEF Moves
<1>5. EncodeKey(s) => Busy(s) /\ UNCHANGED <<local, nodes>> /\ Frame(s) /\ hist' = hist
  BY EncodeKeyEffect DEF Moves
<1>6. LoadAccount(s) => /\ Busy(s) /\ UNCHANGED <<local, nodes>> /\ Frame(s)
                        /\ hist' = hist \/ \E c, r, sp, m : HistTo(c, r, sp, m)
  BY LoadAccountEffect DEF Leaves, Moves, Panics
<1>7. SetupChallenges(s) => /\ Busy(s) /\ UNCHANGED <<local, nodes>> /\ Frame(s)
                            /\ hist' = hist \/ \E c, r, sp, m : HistTo(c, r, sp, m)
  BY SetupChallengesEffect DEF Leaves, Moves, Panics
<1>8. Register(s) => Busy(s) /\ UNCHANGED <<local, nodes>> /\ Frame(s) /\ hist' = hist
  BY RegisterEffect DEF Moves
<1>9. SaveAccount(s) => Busy(s) /\ UNCHANGED <<local, nodes>> /\ Frame(s) /\ hist' = hist
  BY SaveAccountEffect DEF Moves
<1>10. RenewForDomains(s) => /\ Busy(s) /\ UNCHANGED <<local, nodes>> /\ Frame(s)
                             /\ hist' = hist \/ \E c, r, sp, m : HistTo(c, r, sp, m)
  BY RenewForDomainsEffect DEF Leaves, Moves, Panics
<1>11. Obtain(s) => /\ Busy(s) /\ UNCHANGED <<local, nodes>> /\ Frame(s)
                    /\ hist' = hist \/ \E c, r, sp, m : HistTo(c, r, sp, m)
  BY ObtainEffect DEF Leaves, Moves, Panics
<1>12. TruncateCrt(s) => /\ Busy(s) /\ UNCHANGED <<local, nodes>>
                         /\ \E c, r, sp, m : HistTo(c, r, sp, m)
  BY TruncateHist
<1>13. WriteCrt(s) => Busy(s) /\ UNCHANGED <<local, nodes>> /\ Frame(s) /\ hist' = hist
  BY WriteCrtEffect DEF Moves
<1>14. TruncateKey(s) => Busy(s) /\ UNCHANGED <<local, nodes>> /\ Frame(s) /\ hist' = hist
  BY TruncateKeyEffect DEF Moves
<1>15. WriteKey(s) => /\ Busy(s) /\ UNCHANGED <<local, nodes>> /\ Frame(s)
                      /\ \E c, r, sp, m : HistTo(c, r, sp, m)
  BY WriteKeyEffect DEF Moves
<1>16. LastCheck(s) => Busy(s) /\ UNCHANGED <<local, nodes>> /\ Frame(s) /\ hist' = hist
  BY LastCheckEffect DEF Leaves
<1>17. Cleanup(s) => Busy(s) /\ UNCHANGED <<local, nodes>> /\ Frame(s) /\ hist' = hist
  BY CleanupEffect
<1>18. Return(s) => Busy(s) /\ local' = local /\ Over(s) /\ \E c, r, sp, m : HistTo(c, r, sp, m)
  BY ReturnEffect
<1>19. Fails(s) => /\ Busy(s) /\ UNCHANGED <<local, nodes>> /\ Frame(s)
                   /\ \E c, r, sp, m : HistTo(c, r, sp, m)
  BY FailsEffect DEF Leaves, Panics
<1>20. ASSUME NEW c, NEW r, NEW sp, NEW m, HistTo(c, r, sp, m)
       PROVE  hist' = [f \in {"crossed", "raced", "spoiled", "lapse"} |-> hist'[f]]
  BY <1>20 DEF HistTo
<1>21. hist = [f \in {"crossed", "raced", "spoiled", "lapse"} |-> hist[f]]  BY DEF Calls
<1>22. (hist' = hist \/ \E c, r, sp, m : HistTo(c, r, sp, m))
         => hist' = [f \in {"crossed", "raced", "spoiled", "lapse"} |-> hist'[f]]
  BY <1>20, <1>21
<1> HIDE DEF Frame, Over, HistTo, Busy
<1> QED BY <1>1, <1>2, <1>3, <1>4, <1>5, <1>6, <1>7, <1>8, <1>9, <1>10, <1>11, <1>12, <1>13,
           <1>14, <1>15, <1>16, <1>17, <1>18, <1>19, <1>22 DEF Step

(* A build that needs no certificate, or fails before it would ask for one. *)
BuiltBare(n, kind, r) ==
    /\ ~AsksCertificate(local[n], Info(n, r)) /\ Built(n, r, FALSE, kind)
    /\ UNCHANGED calls

(* panel.Start, a rebuild and a tick, by what they come to: a call, a build *)
(* without one, a node that is left out, or nothing.                        *)
LEMMA MakerSteps ==
  ASSUME Calls, Start \/ \E n \in Node : Rebuild(n) \/ Tick(n) \/ TickRebuilt(n)
  PROVE  /\ UNCHANGED <<local, env, files, hist>>
         /\ \/ \E n \in Node, kind \in {"start", "rebuild", "renew"} : \E r :
                  /\ Made(n, kind, r) /\ Acme(local[n])
                  /\ UNCHANGED <<next, resp, inbound>>
                  /\ kind = "start" => /\ next <= Len(Order) /\ n = Order[next]
                                       /\ ~Building(Order[next], "start")
            \/ \E n \in Node, kind \in {"start", "rebuild"} : \E r :
                  /\ BuiltBare(n, kind, r)
                  /\ kind = "start" => next <= Len(Order) /\ ~Building(Order[next], "start")
            \/ /\ UNCHANGED <<resp, inbound, calls>>
               /\ next <= Len(Order) /\ next' = next + 1 /\ ~Building(Order[next], "start")
            \/ UNCHANGED <<next, resp, inbound, calls>>
<1>1. ASSUME NEW n \in Node, NEW kind \in {"start", "rebuild"}, NEW r, Build(n, r, kind),
             kind = "start" => /\ next <= Len(Order) /\ n = Order[next]
                               /\ ~Building(Order[next], "start")
      PROVE  \/ /\ Made(n, kind, r) /\ Acme(local[n])
                /\ UNCHANGED <<next, resp, inbound>>
             \/ BuiltBare(n, kind, r)
  <2>1. CASE AsksCertificate(local[n], Info(n, r))
    <3>1. Begin(n, kind, r) /\ UNCHANGED <<next, resp, inbound>>  BY <1>1, <2>1 DEF Build
    <3>2. Acme(local[n])  BY <2>1 DEF AsksCertificate
    <3> QED BY <3>1, <3>2, BeginEffect
  <2>2. CASE ~AsksCertificate(local[n], Info(n, r))
    BY <1>1, <2>2 DEF Build, BuiltBare
  <2> QED BY <2>1, <2>2
<1>2. CASE Start
  <2>1. /\ next <= Len(Order) /\ ~Building(Order[next], "start")
        /\ UNCHANGED <<local, env, files, hist>>
    BY <1>2 DEF Start
  <2>2. Order[next] \in Node
    BY <2>1, CertAssumption DEF Calls, Node, Range
  <2>3. \/ \E r : Build(Order[next], r, "start")
        \/ next' = next + 1 /\ UNCHANGED <<resp, inbound, calls>>
    BY <1>2 DEF Start
  <2>4. CASE \E r : Build(Order[next], r, "start")
    <3>1. PICK r : Build(Order[next], r, "start")  BY <2>4
    <3> HIDE DEF Build
    <3>2. \/ /\ Made(Order[next], "start", r) /\ Acme(local[Order[next]])
             /\ UNCHANGED <<next, resp, inbound>>
          \/ BuiltBare(Order[next], "start", r)
      BY <1>1, <2>1, <2>2, <3>1
    <3> QED BY <2>1, <2>2, <3>2
  <2> QED BY <2>1, <2>3, <2>4
<1>3. ASSUME NEW n \in Node, Rebuild(n)
      PROVE  /\ UNCHANGED <<local, env, files, hist>>
             /\ \E r : \/ /\ Made(n, "rebuild", r) /\ Acme(local[n])
                          /\ UNCHANGED <<next, resp, inbound>>
                       \/ BuiltBare(n, "rebuild", r)
  <2>1. /\ UNCHANGED <<local, env, files, hist>> /\ \E r : Build(n, r, "rebuild")
    BY <1>3 DEF Rebuild
  <2>2. PICK r : Build(n, r, "rebuild")  BY <2>1
  <2> QED BY <1>1, <2>1, <2>2
<1>4. ASSUME NEW n \in Node, Tick(n) \/ TickRebuilt(n)
      PROVE  /\ UNCHANGED <<local, env, files, next, resp, inbound, hist>>
             /\ UNCHANGED calls \/ (Made(n, "renew", resp[n]) /\ Acme(local[n]))
  <2>1. /\ UNCHANGED <<local, env, files, next, resp, inbound, hist>>
        /\ UNCHANGED calls \/ (Renews(n) /\ Begin(n, "renew", resp[n]))
    BY <1>4 DEF Tick, TickRebuilt
  <2>2. Renews(n) => Acme(local[n])  BY DEF Renews
  <2> QED BY <2>1, <2>2, BeginEffect
<1>5. ASSUME NEW n \in Node, Rebuild(n) \/ Tick(n) \/ TickRebuilt(n)
      PROVE  /\ UNCHANGED <<local, env, files, hist>>
             /\ \/ \E kind \in {"start", "rebuild", "renew"} : \E r :
                     /\ Made(n, kind, r) /\ Acme(local[n])
                     /\ UNCHANGED <<next, resp, inbound>>
                     /\ kind # "start"
                \/ \E r : BuiltBare(n, "rebuild", r)
                \/ UNCHANGED <<next, resp, inbound, calls>>
  BY <1>3, <1>4, <1>5
<1> QED BY <1>2, <1>5

-----------------------------------------------------------------------------
(* The calls keep their form, and panel.Start waits for the build it began. *)
Starting ==
    \A s, t \in Slot :
        (Busy(s) /\ calls[s].kind = "start") =>
            /\ next <= Len(Order) /\ calls[s].node = Order[next]
            /\ Busy(t) /\ calls[t].kind = "start" => t = s

LEMMA FrameCalls ==
  ASSUME Calls, Starting, NEW s \in Slot, Busy(s), Frame(s), UNCHANGED <<local, next>>,
         hist' = [f \in {"crossed", "raced", "spoiled", "lapse"} |-> hist'[f]]
  PROVE  Calls' /\ Starting'
<1>1. \A t \in Slot : Busy(t)' => /\ Busy(t) /\ IsCall(calls'[t])
                                  /\ calls'[t].node = calls[t].node
                                  /\ calls'[t].kind = calls[t].kind
  BY DEF Calls, Frame, Busy
<1>2. Calls'  BY <1>1 DEF Calls, Frame, Busy, IsCall
<1>3. Starting'  BY <1>1 DEF Starting
<1> QED BY <1>2, <1>3

LEMMA TruncateCalls ==
  ASSUME Calls, Starting, NEW s \in Slot, TruncateCrt(s), UNCHANGED <<local, next>>,
         hist' = [f \in {"crossed", "raced", "spoiled", "lapse"} |-> hist'[f]]
  PROVE  Calls' /\ Starting'
<1>1. calls' = [t \in Slot |-> calls'[t]]  BY TruncateEffect
<1>2. Busy(s)  BY TruncateHist
<1>3. \A t \in Slot : Busy(t)' => /\ Busy(t) /\ IsCall(calls'[t])
                                  /\ calls'[t].node = calls[t].node
                                  /\ calls'[t].kind = calls[t].kind
  <2>1. \A t \in Slot : /\ calls'[t].pc = IF t = s THEN "crt1" ELSE calls[t].pc
                        /\ Busy(t) => /\ IsCall(calls'[t]) /\ calls'[t].kind = calls[t].kind
                                      /\ calls'[t].node = calls[t].node
    BY TruncateEffect
  <2> QED BY <1>2, <2>1 DEF Busy
<1>4. Calls'  BY <1>1, <1>3 DEF Calls, IsCall
<1>5. Starting'  BY <1>3 DEF Starting
<1> QED BY <1>4, <1>5

(* Calls stay well formed, and one node at most is being started.           *)
LEMMA NextCalls ==
  ASSUME Calls, Starting, [Next]_vars
  PROVE  Calls' /\ Starting'
<1> DEFINE HistForm == hist = [f \in {"crossed", "raced", "spoiled", "lapse"} |-> hist[f]]
<1>1. CASE UNCHANGED vars
  BY <1>1 DEF vars, Calls, Starting, Busy, IsCall
<1>2. ASSUME NEW n \in Node, NEW kind \in {"start", "rebuild", "renew"}, NEW r, Made(n, kind, r),
             Acme(local[n]), UNCHANGED <<local, next, hist>>,
             kind = "start" => /\ next <= Len(Order) /\ n = Order[next]
                               /\ ~Building(Order[next], "start")
      PROVE  Calls' /\ Starting'
  <2>1. PICK s \in Slot : /\ ~Busy(s) /\ calls' = [t \in Slot |-> calls'[t]]
                          /\ \A t \in Slot : t # s => calls'[t] = calls[t]
                          /\ calls'[s] = NewCall(n, kind, r)
    BY <1>2 DEF Made
  <2>2. IsCall(calls'[s]) /\ calls'[s].node = n /\ calls'[s].kind = kind
    <3>1. IsCall(NewCall(n, kind, r))  BY NewCallFields
    <3>2. NewCall(n, kind, r).node = n /\ NewCall(n, kind, r).kind = kind  BY DEF NewCall
    <3> QED BY <2>1, <3>1, <3>2
  <2>3. Calls'  BY <1>2, <2>1, <2>2 DEF Calls, Busy, IsCall
  <2>4. kind = "start" => \A t \in Slot : ~(Busy(t) /\ calls[t].kind = "start")
    BY <1>2 DEF Starting, Building
  <2>5. Starting'  BY <1>2, <2>1, <2>2, <2>4 DEF Starting, Busy
  <2> QED BY <2>3, <2>5
<1>3. ASSUME next <= Len(Order), next' = next + 1, ~Building(Order[next], "start"),
             UNCHANGED <<local, calls, hist>>
      PROVE  Calls' /\ Starting'
  <2>1. \A t \in Slot : ~(Busy(t) /\ calls[t].kind = "start")
    BY <1>3 DEF Starting, Building
  <2>2. Len(Order) \in Nat /\ next \in Nat  BY CertAssumption DEF Calls
  <2>3. Calls'  BY <1>3, <2>2 DEF Calls, Busy, IsCall
  <2>4. Starting'  BY <1>3, <2>1 DEF Starting, Busy
  <2> QED BY <2>3, <2>4
<1>4. ASSUME NEW n \in Node, NEW kind \in {"start", "rebuild"}, NEW r, BuiltBare(n, kind, r),
             kind = "start" => next <= Len(Order) /\ ~Building(Order[next], "start"),
             UNCHANGED <<local, hist>>
      PROVE  Calls' /\ Starting'
  <2>1. UNCHANGED calls /\ next' = IF kind = "start" THEN next + 1 ELSE next
    BY <1>4 DEF BuiltBare, Built
  <2>2. CASE kind = "start"  BY <1>3, <1>4, <2>1, <2>2
  <2>3. CASE kind # "start"
    BY <1>4, <2>1, <2>3 DEF Calls, Starting, Busy, IsCall
  <2> QED BY <2>2, <2>3
<1>5. CASE Start \/ \E n \in Node : Rebuild(n) \/ Tick(n) \/ TickRebuilt(n)
  <2>1. UNCHANGED <<local, hist>>  BY <1>5, MakerSteps
  <2>2. CASE \E n \in Node, kind \in {"start", "rebuild", "renew"} : \E r :
                /\ Made(n, kind, r) /\ Acme(local[n]) /\ next' = next
                /\ kind = "start" => /\ next <= Len(Order) /\ n = Order[next]
                                     /\ ~Building(Order[next], "start")
    BY <1>2, <2>1, <2>2
  <2>3. CASE \E n \in Node, kind \in {"start", "rebuild"} : \E r :
                /\ BuiltBare(n, kind, r)
                /\ kind = "start" => next <= Len(Order) /\ ~Building(Order[next], "start")
    BY <1>4, <2>1, <2>3
  <2>4. CASE /\ UNCHANGED calls
             /\ next <= Len(Order) /\ next' = next + 1 /\ ~Building(Order[next], "start")
    BY <1>3, <2>1, <2>4
  <2>5. CASE UNCHANGED <<next, calls>>
    BY <2>1, <2>5 DEF Calls, Starting, Busy, IsCall
  <2> HIDE DEF Made, BuiltBare, Building, Acme
  <2> QED BY <1>5, <2>2, <2>3, <2>4, <2>5, MakerSteps
<1>6. CASE DayPasses
  <2>1. UNCHANGED <<local, next, calls>>  BY <1>6 DEF DayPasses, nodes
  <2>2. HistForm'  BY <1>6, DayHist DEF HistTo
  <2> QED BY <2>1, <2>2 DEF Calls, Starting, Busy, IsCall
<1>7. CASE Crash
  <2> DEFINE C == Cut({s \in Slot : Busy(s)})
  <2>1. /\ next' = 1 /\ calls' = [s \in Slot |-> Idle] /\ local' = local
        /\ hist' = [hist EXCEPT !.crossed = FALSE, !.spoiled = @ \cup C]
    BY <1>7 DEF Crash
  <2> HIDE DEF C
  <2>2. HistForm'  BY <2>1 DEF Calls
  <2>3. Len(Order) \in Nat  BY CertAssumption
  <2>4. \A s \in Slot : ~Busy(s)'  BY <2>1 DEF Busy, Idle
  <2>5. Calls'  BY <2>1, <2>2, <2>3, <2>4 DEF Calls
  <2> QED BY <2>4, <2>5 DEF Starting
<1>8. ASSUME NEW s \in Slot, Step(s)
      PROVE  Calls' /\ Starting'
  <2>1. /\ Busy(s) /\ local' = local /\ HistForm'
        /\ \/ Frame(s) /\ UNCHANGED nodes
           \/ Return(s) /\ Over(s)
           \/ TruncateCrt(s) /\ UNCHANGED nodes
    BY <1>8, StepShapes
  <2>2. CASE Frame(s) /\ UNCHANGED nodes  BY <2>1, <2>2, FrameCalls DEF nodes
  <2>3. CASE TruncateCrt(s) /\ UNCHANGED nodes  BY <2>1, <2>3, TruncateCalls DEF nodes
  <2>4. CASE Return(s) /\ Over(s)
    <3>1. next' = IF calls[s].kind = "start" THEN next + 1 ELSE next
      BY <2>4, ReturnEffect DEF Built
    <3>2. \A t \in Slot : Busy(t)' => Busy(t) /\ t # s /\ calls'[t] = calls[t]
      BY <2>4 DEF Over, Busy
    <3>3. Len(Order) \in Nat /\ next \in Nat  BY CertAssumption DEF Calls
    <3>4. next' \in 1 .. (Len(Order) + 1)
      BY <2>1, <3>1, <3>3 DEF Calls, Starting
    <3>5. Calls'  BY <2>1, <2>4, <3>2, <3>4 DEF Calls, Over, IsCall
    <3>6. Starting'  BY <2>1, <3>1, <3>2 DEF Starting
    <3> QED BY <3>5, <3>6
  <2> QED BY <2>1, <2>2, <2>3, <2>4
<1> QED BY <1>1, <1>5, <1>6, <1>7, <1>8 DEF Next

-----------------------------------------------------------------------------
(* The account of an e-mail address.  As long as no two calls generate its  *)
(* key, account.json belongs to the key file, there is none without a key,  *)
(* and the calls work with the key of the file.                             *)
KeyPcs == {"create", "encode", "account", "provider", "register", "save"}

Uses(s, e) == Busy(s) /\ EmailOf(s) = e

CallHeld(s, e) ==
    /\ calls[s].pc \in {"create", "encode"} =>
          /\ akey[e] = IF calls[s].pc = "create" THEN Absent ELSE Torn
          /\ \A t \in Slot : Uses(t, e) /\ calls[t].pc \in {"create", "encode"} => t = s
    /\ calls[s].pc = "encode" => calls[s].k > Torn
    /\ calls[s].pc \in {"account", "provider", "register", "save"} =>
          calls[s].k = akey[e] /\ calls[s].k > Torn
    /\ calls[s].pc = "save" => calls[s].reg = calls[s].k

KeyHeld(e) ==
    /\ acct[e] > Torn => acct[e] = akey[e]
    /\ akey[e] <= Torn => acct[e] = Absent
    /\ \A s \in Slot : Uses(s, e) => CallHeld(s, e)

AccountTypes ==
    /\ keys \in Nat /\ keys >= Torn
    /\ akey = [e \in Email |-> akey[e]] /\ acct = [e \in Email |-> acct[e]]
    /\ \A e \in Email : akey[e] \in 0..keys /\ acct[e] \in 0..keys
    /\ \A s \in Slot : Busy(s) => calls[s].k \in 0..keys /\ calls[s].reg \in 0..keys

AccountInv ==
    /\ AccountTypes
    /\ \A e \in Email : e \notin hist.raced => KeyHeld(e)

(* A step after which every call that works with a key did so before.       *)
LEMMA AccountQuiet ==
  ASSUME AccountInv, UNCHANGED <<local, akey, acct, keys>>, hist'.raced = hist.raced,
         \A t \in Slot : Busy(t)' =>
            /\ calls'[t].k \in 0..keys /\ calls'[t].reg \in 0..keys
            /\ calls'[t].pc \in KeyPcs =>
                  /\ Busy(t) /\ calls'[t].pc = calls[t].pc /\ calls'[t].node = calls[t].node
                  /\ calls'[t].k = calls[t].k /\ calls'[t].reg = calls[t].reg
  PROVE  AccountInv'
<1>1. AccountTypes'  BY DEF AccountInv, AccountTypes
<1>2. ASSUME NEW e \in Email, e \notin hist'.raced
      PROVE  KeyHeld(e)'
  <2>1. KeyHeld(e)  BY <1>2 DEF AccountInv
  <2>2. ASSUME NEW s \in Slot, Uses(s, e)'
        PROVE  CallHeld(s, e)'
    <3>1. ASSUME NEW t \in Slot, Uses(t, e)', calls'[t].pc \in KeyPcs
          PROVE  /\ Uses(t, e) /\ calls'[t].pc = calls[t].pc /\ calls'[t].k = calls[t].k
                 /\ calls'[t].reg = calls[t].reg
      BY <3>1 DEF Uses, EmailOf, Cert
    <3>2. CASE calls'[s].pc \in KeyPcs
      <4>1. CallHeld(s, e) /\ calls'[s].pc = calls[s].pc /\ calls'[s].k = calls[s].k
            /\ calls'[s].reg = calls[s].reg
        BY <2>1, <2>2, <3>1, <3>2 DEF KeyHeld
      <4>2. \A t \in Slot : Uses(t, e)' /\ calls'[t].pc \in {"create", "encode"} =>
               Uses(t, e) /\ calls[t].pc \in {"create", "encode"}
        BY <3>1 DEF KeyPcs
      <4> QED BY <4>1, <4>2 DEF CallHeld
    <3>3. CASE calls'[s].pc \notin KeyPcs  BY <3>3 DEF CallHeld, KeyPcs
    <3> QED BY <3>2, <3>3
  <2> QED BY <2>1, <2>2 DEF KeyHeld
<1> QED BY <1>1, <1>2 DEF AccountInv

(* A step of a call leaves the other accounts as they are.                  *)
LEMMA AccountOther ==
  ASSUME Calls, AccountInv, NEW s \in Slot, Busy(s), Frame(s), local' = local,
         hist.raced \subseteq hist'.raced, AccountTypes',
         NEW x \in Email, x = EmailOf(s),
         \A e \in Email : e # x => akey'[e] = akey[e] /\ acct'[e] = acct[e],
         x \notin hist'.raced => KeyHeld(x)'
  PROVE  AccountInv'
<1>1. \A t \in Slot : EmailOf(t)' = EmailOf(t)
  BY DEF EmailOf, Cert, Frame
<1>2. ASSUME NEW e \in Email, e \notin hist'.raced, e # x
      PROVE  KeyHeld(e)'
  <2>1. KeyHeld(e)  BY <1>2 DEF AccountInv
  <2>2. \A t \in Slot : Uses(t, e)' => Uses(t, e) /\ t # s /\ calls'[t] = calls[t]
    BY <1>1, <1>2 DEF Uses, Busy, Frame
  <2>3. akey'[e] = akey[e] /\ acct'[e] = acct[e]  BY <1>2
  <2>4. ASSUME NEW t \in Slot, Uses(t, e)'
        PROVE  CallHeld(t, e)'
    <3>1. CallHeld(t, e) /\ calls'[t] = calls[t]  BY <2>1, <2>2, <2>4 DEF KeyHeld
    <3> QED BY <2>2, <2>3, <3>1 DEF CallHeld
  <2> QED BY <2>1, <2>3, <2>4 DEF KeyHeld
<1>3. \A e \in Email : e \notin hist'.raced => KeyHeld(e)'  BY <1>2
<1> QED BY <1>3 DEF AccountInv

(* The steps that leave the account alone and take the call nowhere near it *)
LEMMA AccountLeaves ==
  ASSUME Calls, AccountInv, NEW s \in Slot, Busy(s), UNCHANGED <<local, akey, acct, keys>>,
         hist'.raced = hist.raced,
         (\E ok : Leaves(s, ok)) \/ (\E pc : pc \notin KeyPcs /\ Moves(s, pc) /\ KeepsKey(s))
         \/ (Frame(s) /\ KeepsKey(s) /\ calls'[s].pc = calls[s].pc) \/ Over(s)
  PROVE  AccountInv'
<1>1. \A t \in Slot : Busy(t) => calls[t].k \in 0..keys /\ calls[t].reg \in 0..keys
  BY DEF AccountInv, AccountTypes
<1>2. keys \in Nat  BY DEF AccountInv, AccountTypes
<1>3. \A t \in Slot : t # s => calls'[t] = calls[t]  BY DEF Leaves, Moves, Frame, Over
<1>4. Busy(s)' =>
        /\ calls'[s].k \in 0..keys /\ calls'[s].reg \in 0..keys
        /\ calls'[s].pc \in KeyPcs =>
              /\ Busy(s) /\ calls'[s].pc = calls[s].pc /\ calls'[s].node = calls[s].node
              /\ calls'[s].k = calls[s].k /\ calls'[s].reg = calls[s].reg
  <2>1. CASE \E ok : Leaves(s, ok)  BY <1>2, <2>1 DEF Leaves, Absent, KeyPcs
  <2>2. CASE \E pc : pc \notin KeyPcs /\ Moves(s, pc) /\ KeepsKey(s)
    BY <1>1, <2>2 DEF Moves, KeepsKey
  <2>3. CASE Frame(s) /\ KeepsKey(s) /\ calls'[s].pc = calls[s].pc
    BY <1>1, <2>3 DEF Frame, KeepsKey
  <2>4. CASE Over(s)  BY <2>4 DEF Over, Busy
  <2> QED BY <2>1, <2>2, <2>3, <2>4
<1>5. \A t \in Slot : Busy(t)' =>
            /\ calls'[t].k \in 0..keys /\ calls'[t].reg \in 0..keys
            /\ calls'[t].pc \in KeyPcs =>
                  /\ Busy(t) /\ calls'[t].pc = calls[t].pc /\ calls'[t].node = calls[t].node
                  /\ calls'[t].k = calls[t].k /\ calls'[t].reg = calls[t].reg
  BY <1>1, <1>3, <1>4 DEF Busy
<1> QED BY <1>5, AccountQuiet

(* A step of a call near its account x: what is left to show of it.         *)
LEMMA AccountOwn ==
  ASSUME Calls, AccountInv, NEW s \in Slot, Busy(s), Frame(s), local' = local,
         hist.raced \subseteq hist'.raced, AccountTypes',
         NEW x \in Email, x = EmailOf(s),
         \A e \in Email : e # x => akey'[e] = akey[e] /\ acct'[e] = acct[e],
         x \notin hist'.raced =>
            /\ acct'[x] > Torn => acct'[x] = akey'[x]
            /\ akey'[x] <= Torn => acct'[x] = Absent
            /\ calls'[s].pc \in {"create", "encode"} =>
                  /\ akey'[x] = IF calls'[s].pc = "create" THEN Absent ELSE Torn
                  /\ \A t \in Slot \ {s} : Uses(t, x) => calls[t].pc \notin {"create", "encode"}
            /\ calls'[s].pc = "encode" => calls'[s].k > Torn
            /\ calls'[s].pc \in {"account", "provider", "register", "save"} =>
                  calls'[s].k = akey'[x] /\ calls'[s].k > Torn
            /\ calls'[s].pc = "save" => calls'[s].reg = calls'[s].k
            /\ akey'[x] = akey[x] \/ \A t \in Slot \ {s} : Uses(t, x) => calls[t].pc \notin KeyPcs
  PROVE  AccountInv'
<1>1. \A t \in Slot : EmailOf(t)' = EmailOf(t)  BY DEF EmailOf, Cert, Frame
<1>2. \A t \in Slot \ {s} : calls'[t] = calls[t]  BY DEF Frame
<1>3. \A t \in Slot : Uses(t, x)' => Uses(t, x)  BY <1>1, <1>2 DEF Uses, Busy
<1>4. ASSUME x \notin hist'.raced
      PROVE  KeyHeld(x)'
  <2>1. KeyHeld(x)  BY <1>4 DEF AccountInv
  <2>2. CallHeld(s, x)'  BY <1>2, <1>3, <1>4 DEF CallHeld
  <2>3. ASSUME NEW t \in Slot \ {s}, Uses(t, x)'
        PROVE  CallHeld(t, x)'
    <3>1. Uses(t, x) /\ CallHeld(t, x) /\ calls'[t] = calls[t]
      BY <1>2, <1>3, <2>1, <2>3 DEF KeyHeld
    <3>2. CASE calls[t].pc \notin KeyPcs  BY <3>1, <3>2 DEF CallHeld, KeyPcs
    <3>3. CASE calls[t].pc \in KeyPcs
      <4>1. akey'[x] = akey[x]  BY <1>4, <3>1, <3>3
      <4>2. calls[t].pc \in {"create", "encode"} => calls'[s].pc \notin {"create", "encode"}
        BY <1>4, <3>1
      <4>3. calls[t].pc \in {"create", "encode"} =>
              \A u \in Slot : Uses(u, x)' /\ calls'[u].pc \in {"create", "encode"} => u = t
        BY <1>2, <1>3, <3>1, <4>2 DEF CallHeld
      <4> QED BY <3>1, <4>1, <4>3 DEF CallHeld
    <3> QED BY <3>2, <3>3
  <2> QED BY <1>4, <2>2, <2>3 DEF KeyHeld
<1> QED BY <1>4, AccountOther

(* The steps that read or write the account, one lemma each.                *)
LEMMA AccountGetKey ==
  ASSUME Calls, AccountInv, NEW s \in Slot, GetPrivateKey(s)
  PROVE  AccountInv'
<1> DEFINE x == EmailOf(s)
<1>1. /\ Busy(s) /\ UNCHANGED <<local, akey, acct, keys>>
      /\ calls[s].pc \in {"key", "env"}
  BY GetPrivateKeyEffect DEF files
<1>2. x \in Email  BY <1>1, CallSite
<1>3. CASE Panics(s)  BY <1>1, <1>3, AccountLeaves DEF Panics, HistTo
<1>4. CASE /\ akey[x] \notin {Absent, Torn}
           /\ Moves(s, "account") /\ calls'[s].k = akey[x]
           /\ calls'[s].reg = calls[s].reg /\ hist' = hist
  <2>1. AccountTypes'
    BY <1>1, <1>2, <1>4 DEF AccountInv, AccountTypes, Moves, Frame, Busy
  <2>2. akey[x] > Torn
    BY <1>2, <1>4 DEF AccountInv, AccountTypes, Absent, Torn
  <2> HIDE DEF x
  <2>3. x \notin hist.raced => KeyHeld(x)  BY <1>2 DEF AccountInv
  <2> QED BY <1>1, <1>2, <1>4, <2>1, <2>2, <2>3, AccountOwn DEF Moves, KeyHeld, x
<1>5. CASE /\ akey[x] = Absent /\ Moves(s, "create") /\ KeepsKey(s)
           /\ HistTo(hist.crossed,
                     IF \E t \in Slot \ {s} : Busy(t) /\ EmailOf(t) = x /\ At(t, "create")
                     THEN hist.raced \cup {x} ELSE hist.raced,
                     hist.spoiled, hist.lapse)
  <2>1. AccountTypes'
    BY <1>1, <1>5 DEF AccountInv, AccountTypes, Moves, Frame, Busy, KeepsKey
  <2>2. hist.raced \subseteq hist'.raced
    BY <1>5 DEF HistTo
  <2>3. x \notin hist'.raced => \A t \in Slot \ {s} : Uses(t, x) => calls[t].pc # "create"
    BY <1>5 DEF HistTo, Uses, At
  <2> HIDE DEF x
  <2>4. x \notin hist'.raced => KeyHeld(x)  BY <1>2, <2>2 DEF AccountInv
  <2>5. x \notin hist'.raced => \A t \in Slot \ {s} : Uses(t, x) => calls[t].pc # "encode"
    BY <1>5, <2>4 DEF KeyHeld, CallHeld, Absent, Torn
  <2> QED BY <1>1, <1>2, <1>5, <2>1, <2>2, <2>3, <2>4, <2>5, AccountOwn
          DEF Moves, KeyHeld, x, Absent, Torn
<1> QED BY <1>3, <1>4, <1>5, GetPrivateKeyEffect

LEMMA AccountCreate ==
  ASSUME Calls, AccountInv, NEW s \in Slot, CreateKeyFile(s)
  PROVE  AccountInv'
<1> DEFINE x == EmailOf(s)
<1>1. /\ Busy(s) /\ calls[s].pc = "create" /\ Moves(s, "encode") /\ keys' = keys + 1
      /\ akey' = [akey EXCEPT ![x] = Torn] /\ calls'[s].k = keys + 1
      /\ calls'[s].reg = calls[s].reg /\ UNCHANGED <<local, acct, hist>>
  BY CreateKeyFileEffect
<1>2. x \in Email /\ Uses(s, x)  BY <1>1, CallSite DEF Uses
<1> HIDE DEF x
<1>3. AccountTypes'
  BY <1>1, <1>2 DEF AccountInv, AccountTypes, Moves, Frame, Busy, Torn, Absent
<1>4. /\ akey'[x] = Torn /\ calls'[s].k > Torn /\ \A e \in Email : e # x => akey'[e] = akey[e]
  BY <1>1, <1>2 DEF AccountInv, AccountTypes, Torn
<1>5. ASSUME x \notin hist.raced
      PROVE  /\ acct[x] = Absent /\ \A t \in Slot \ {s} : Uses(t, x) => calls[t].pc \notin KeyPcs
  <2>1. KeyHeld(x) /\ CallHeld(s, x)  BY <1>2, <1>5 DEF AccountInv, KeyHeld
  <2>2. akey[x] = Absent  BY <1>1, <2>1 DEF CallHeld
  <2>3. ASSUME NEW t \in Slot \ {s}, Uses(t, x)
        PROVE  calls[t].pc \notin KeyPcs
    <3>1. calls[t].pc \notin {"create", "encode"}  BY <1>1, <2>1, <2>3 DEF CallHeld
    <3>2. CallHeld(t, x)  BY <2>1, <2>3 DEF KeyHeld
    <3> QED BY <2>2, <3>1, <3>2 DEF CallHeld, KeyPcs, Absent, Torn
  <2> QED BY <2>1, <2>2, <2>3 DEF KeyHeld, Absent, Torn
<1>6. \A t \in Slot \ {s} : calls[t].pc \notin KeyPcs => calls[t].pc \notin {"create", "encode"}
  BY DEF KeyPcs
<1> QED BY <1>1, <1>2, <1>3, <1>4, <1>5, <1>6, AccountOwn DEF Moves, x, Absent, Torn

LEMMA AccountEncode ==
  ASSUME Calls, AccountInv, NEW s \in Slot, EncodeKey(s)
  PROVE  AccountInv'
<1> DEFINE x == EmailOf(s)
<1>1. /\ Busy(s) /\ calls[s].pc = "encode" /\ Moves(s, "account") /\ KeepsKey(s)
      /\ akey' = [akey EXCEPT ![x] = calls[s].k] /\ UNCHANGED <<local, acct, keys, hist>>
  BY EncodeKeyEffect
<1>2. x \in Email /\ Uses(s, x)  BY <1>1, CallSite DEF Uses
<1> HIDE DEF x
<1>3. AccountTypes'
  BY <1>1, <1>2 DEF AccountInv, AccountTypes, Moves, Frame, Busy, KeepsKey
<1>4. akey'[x] = calls[s].k /\ calls'[s].k = calls[s].k
      /\ \A e \in Email : e # x => akey'[e] = akey[e]
  BY <1>1, <1>2 DEF AccountInv, AccountTypes, KeepsKey
<1>5. ASSUME x \notin hist.raced
      PROVE  /\ acct[x] = Absent /\ calls[s].k > Torn
             /\ \A t \in Slot \ {s} : Uses(t, x) => calls[t].pc \notin KeyPcs
  <2>1. KeyHeld(x) /\ CallHeld(s, x)  BY <1>2, <1>5 DEF AccountInv, KeyHeld
  <2>2. akey[x] = Torn  BY <1>1, <2>1 DEF CallHeld
  <2>3. ASSUME NEW t \in Slot \ {s}, Uses(t, x)
        PROVE  calls[t].pc \notin KeyPcs
    <3>1. calls[t].pc \notin {"create", "encode"}  BY <1>1, <2>1, <2>3 DEF CallHeld
    <3>2. CallHeld(t, x)  BY <2>1, <2>3 DEF KeyHeld
    <3> QED BY <2>2, <3>1, <3>2 DEF CallHeld, KeyPcs, Torn
  <2> QED BY <1>1, <2>1, <2>2, <2>3 DEF KeyHeld, CallHeld, Torn
<1>6. calls[s].k \in Nat  BY <1>1 DEF AccountInv, AccountTypes
<1> QED BY <1>1, <1>2, <1>3, <1>4, <1>5, <1>6, AccountOwn DEF Moves, x, Absent, Torn

LEMMA AccountLoad ==
  ASSUME Calls, AccountInv, NEW s \in Slot, LoadAccount(s) \/ SetupChallenges(s)
  PROVE  AccountInv'
<1> DEFINE x == EmailOf(s)
<1>1. Busy(s) /\ UNCHANGED <<local, akey, acct, keys>>
  BY LoadAccountEffect, SetupChallengesEffect DEF files
<1>2. x \in Email /\ Uses(s, x)  BY <1>1, CallSite DEF Uses
<1>3. CASE Panics(s)  BY <1>1, <1>3, AccountLeaves DEF Panics, HistTo
<1>4. CASE /\ KeepsKey(s) /\ hist' = hist
           /\ Moves(s, "renew") \/ Moves(s, "obtain")
  BY <1>1, <1>4, AccountLeaves DEF KeyPcs
<1>5. CASE /\ calls[s].pc \in {"account", "provider"} /\ hist' = hist
           /\ \/ Moves(s, "provider") /\ calls'[s].k = calls[s].k /\ calls'[s].reg = acct[x]
              \/ Moves(s, "register") /\ KeepsKey(s)
  <2> HIDE DEF x
  <2>1. AccountTypes'
    BY <1>1, <1>2, <1>5 DEF AccountInv, AccountTypes, Moves, Frame, Busy, KeepsKey
  <2>2. /\ Frame(s) /\ calls'[s].pc \in {"provider", "register"} /\ calls'[s].k = calls[s].k
    BY <1>5 DEF Moves, KeepsKey
  <2>3. ASSUME x \notin hist.raced
        PROVE  KeyHeld(x) /\ calls[s].k = akey[x] /\ calls[s].k > Torn
    <3>1. KeyHeld(x) /\ CallHeld(s, x)  BY <1>2, <2>3 DEF AccountInv, KeyHeld
    <3> QED BY <1>5, <3>1 DEF CallHeld
  <2> QED BY <1>1, <1>2, <1>5, <2>1, <2>2, <2>3, AccountOwn DEF x, KeyHeld
<1> QED BY <1>3, <1>4, <1>5, LoadAccountEffect, SetupChallengesEffect

LEMMA AccountRegister ==
  ASSUME Calls, AccountInv, NEW s \in Slot, Register(s) \/ SaveAccount(s)
  PROVE  AccountInv'
<1> DEFINE x == EmailOf(s)
<1>1. /\ Busy(s) /\ UNCHANGED <<local, akey, keys, hist>> /\ calls'[s].k = calls[s].k
      /\ \/ /\ calls[s].pc = "register" /\ Moves(s, "save") /\ calls'[s].reg = calls[s].k
            /\ acct' = [acct EXCEPT ![x] = Torn]
         \/ /\ calls[s].pc = "save" /\ Moves(s, "obtain") /\ calls'[s].reg = calls[s].reg
            /\ acct' = [acct EXCEPT ![x] = calls[s].reg]
  BY RegisterEffect, SaveAccountEffect DEF KeepsKey
<1>2. x \in Email /\ Uses(s, x)  BY <1>1, CallSite DEF Uses
<1> HIDE DEF x
<1>3. AccountTypes'
  BY <1>1, <1>2 DEF AccountInv, AccountTypes, Moves, Frame, Busy, Torn
<1>4. \A e \in Email : e # x => acct'[e] = acct[e]  BY <1>1 DEF AccountInv, AccountTypes
<1>5. acct'[x] = IF calls[s].pc = "register" THEN Torn ELSE calls[s].reg
  BY <1>1, <1>2 DEF AccountInv, AccountTypes
<1>6. ASSUME x \notin hist.raced
      PROVE  /\ akey[x] > Torn /\ calls[s].k = akey[x]
             /\ calls[s].pc = "save" => calls[s].reg = calls[s].k
  <2>1. CallHeld(s, x)  BY <1>2, <1>6 DEF AccountInv, KeyHeld
  <2> QED BY <1>1, <2>1 DEF CallHeld
<1>7. akey[x] \in Nat  BY <1>2 DEF AccountInv, AccountTypes
<1> QED BY <1>1, <1>2, <1>3, <1>4, <1>5, <1>6, <1>7, AccountOwn DEF Moves, x, Absent, Torn

(* Every step keeps the accounts.                                           *)
LEMMA AccountStep ==
  ASSUME Calls, AccountInv, NEW s \in Slot, Step(s)
  PROVE  AccountInv'
<1>1. ASSUME NEW ok, Busy(s), Leaves(s, ok), UNCHANGED <<local, files>>,
             hist'.raced = hist.raced
      PROVE  AccountInv'
  BY <1>1, AccountLeaves DEF files
<1>2. ASSUME Busy(s), Panics(s), UNCHANGED <<local, akey, acct, keys>>
      PROVE  AccountInv'
  BY <1>2, AccountLeaves DEF Panics, HistTo
<1>3. ASSUME NEW pc, Busy(s), Moves(s, pc), KeepsKey(s), pc \notin KeyPcs,
             UNCHANGED <<local, akey, acct, keys>>, hist'.raced = hist.raced
      PROVE  AccountInv'
  BY <1>3, AccountLeaves
<1>4. ASSUME Busy(s), Frame(s), KeepsKey(s), calls'[s].pc = calls[s].pc,
             UNCHANGED <<local, akey, acct, keys>>, hist'.raced = hist.raced
      PROVE  AccountInv'
  BY <1>4, AccountLeaves
<1>5. ApplyDNSEnv(s) => AccountInv'
  <2>1. SUFFICES ASSUME ApplyDNSEnv(s) PROVE AccountInv'  OBVIOUS
  <2>2. Busy(s) /\ calls[s].pc = "env" /\ UNCHANGED <<local, files>>  BY <2>1, ApplyEffect
  <2>3. CASE Leaves(s, FALSE) /\ hist' = hist  BY <1>1, <2>2, <2>3
  <2>4. CASE /\ Frame(s) /\ calls'[s].pc = "env" /\ KeepsKey(s)
             /\ \E c : HistTo(c, hist.raced, hist.spoiled, hist.lapse)
    BY <1>4, <2>2, <2>4 DEF HistTo, files
  <2> QED BY <2>1, <2>3, <2>4, ApplyEffect
<1>6. FirstCheck(s) => AccountInv'
  BY <1>1, <1>3, FirstCheckEffect DEF KeyPcs, files
<1>7. RenewForDomains(s) => AccountInv'
  <2>1. SUFFICES ASSUME RenewForDomains(s) PROVE AccountInv'  OBVIOUS
  <2>2. Busy(s) /\ UNCHANGED <<local, files>>  BY <2>1, RenewForDomainsEffect
  <2> QED BY <1>1, <1>2, <1>3, <2>1, <2>2, RenewForDomainsEffect DEF KeyPcs, files
<1>8. Obtain(s) => AccountInv'
  BY <1>2, <1>3, ObtainEffect DEF KeyPcs
<1>9. TruncateCrt(s) => AccountInv'
  <2>1. SUFFICES ASSUME TruncateCrt(s) PROVE AccountInv'  OBVIOUS
  <2>2. /\ Busy(s) /\ UNCHANGED <<local, akey, acct, keys>> /\ hist'.raced = hist.raced
    BY <2>1, TruncateHist DEF HistTo
  <2>3. \A t \in Slot : /\ calls'[t].pc = IF t = s THEN "crt1" ELSE calls[t].pc
                        /\ Busy(t) => KeepsKey(t) /\ calls'[t].node = calls[t].node
    BY <2>1, TruncateEffect
  <2>4. \A t \in Slot : Busy(t)' =>
          /\ Busy(t) /\ KeepsKey(t) /\ calls'[t].node = calls[t].node
          /\ calls'[t].pc \in KeyPcs => calls'[t].pc = calls[t].pc
    BY <2>2, <2>3 DEF Busy, KeyPcs
  <2>5. \A t \in Slot : Busy(t)' =>
            /\ calls'[t].k \in 0..keys /\ calls'[t].reg \in 0..keys
            /\ calls'[t].pc \in KeyPcs =>
                  /\ Busy(t) /\ calls'[t].pc = calls[t].pc /\ calls'[t].node = calls[t].node
                  /\ calls'[t].k = calls[t].k /\ calls'[t].reg = calls[t].reg
    BY <2>4 DEF AccountInv, AccountTypes, KeepsKey
  <2> QED BY <2>2, <2>5, AccountQuiet
<1>10. WriteCrt(s) => AccountInv'  BY <1>3, WriteCrtEffect DEF KeyPcs
<1>11. TruncateKey(s) => AccountInv'  BY <1>3, TruncateKeyEffect DEF KeyPcs
<1>12. WriteKey(s) => AccountInv'  BY <1>3, WriteKeyEffect DEF KeyPcs, HistTo
<1>13. LastCheck(s) => AccountInv'  BY <1>1, LastCheckEffect
<1>14. Cleanup(s) => AccountInv'  BY <1>4, CleanupEffect DEF files
<1>15. Return(s) => AccountInv'
  <2>1. SUFFICES ASSUME Return(s) PROVE AccountInv'  OBVIOUS
  <2>2. Busy(s) /\ Over(s) /\ UNCHANGED <<local, files>> /\ hist'.raced = hist.raced
    BY <2>1, ReturnEffect DEF HistTo
  <2> QED BY <2>2, AccountLeaves DEF files
<1>16. Fails(s) => AccountInv'  BY <1>2, FailsEffect DEF files
<1> QED BY <1>5, <1>6, <1>7, <1>8, <1>9, <1>10, <1>11, <1>12, <1>13, <1>14, <1>15, <1>16,
           AccountGetKey, AccountCreate, AccountEncode, AccountLoad, AccountRegister DEF Step

LEMMA AccountNext ==
  ASSUME Calls, AccountInv, [Next]_vars
  PROVE  AccountInv'
<1>1. CASE UNCHANGED vars
  BY <1>1, AccountQuiet DEF vars, AccountInv, AccountTypes, Busy
<1>2. CASE Start \/ \E n \in Node : Rebuild(n) \/ Tick(n) \/ TickRebuilt(n)
  <2>1. UNCHANGED <<local, files, hist>> /\ (UNCHANGED calls \/ \E n, kind, r : Made(n, kind, r))
    BY <1>2, MakerSteps DEF BuiltBare
  <2>2. CASE UNCHANGED calls
    BY <2>1, <2>2, AccountQuiet DEF files, AccountInv, AccountTypes, Busy
  <2>3. ASSUME NEW n, NEW kind, NEW r, Made(n, kind, r)
        PROVE  AccountInv'
    <3>1. PICK s \in Slot : /\ ~Busy(s) /\ \A t \in Slot : t # s => calls'[t] = calls[t]
                            /\ calls'[s] = NewCall(n, kind, r)
      BY <2>3 DEF Made
    <3>2. calls'[s].pc \notin KeyPcs /\ calls'[s].k = Absent /\ calls'[s].reg = Absent
      BY <3>1 DEF NewCall, KeyPcs
    <3>3. \A t \in Slot : Busy(t)' =>
            /\ calls'[t].k \in 0..keys /\ calls'[t].reg \in 0..keys
            /\ calls'[t].pc \in KeyPcs =>
                  /\ Busy(t) /\ calls'[t].pc = calls[t].pc /\ calls'[t].node = calls[t].node
                  /\ calls'[t].k = calls[t].k /\ calls'[t].reg = calls[t].reg
      BY <3>1, <3>2 DEF AccountInv, AccountTypes, Busy, Absent
    <3> QED BY <2>1, <3>3, AccountQuiet DEF files
  <2> QED BY <2>1, <2>2, <2>3
<1>3. CASE DayPasses
  <2>1. UNCHANGED <<local, akey, acct, keys, calls>>  BY <1>3 DEF DayPasses
  <2>2. hist'.raced = hist.raced  BY <1>3, DayHist
  <2> QED BY <2>1, <2>2, AccountQuiet DEF AccountInv, AccountTypes, Busy
<1>4. CASE Crash
  <2>1. /\ UNCHANGED <<local, akey, acct, keys>> /\ calls' = [s \in Slot |-> Idle]
        /\ hist'.raced = hist.raced
    BY <1>4 DEF Crash, files, Calls
  <2>2. \A t \in Slot : ~Busy(t)'  BY <2>1 DEF Busy, Idle
  <2> QED BY <2>1, <2>2, AccountQuiet
<1> QED BY <1>1, <1>2, <1>3, <1>4, AccountStep DEF Next

-----------------------------------------------------------------------------
(* Certificate and key of a domain.  A save that runs alone owns the pair;  *)
(* one that does not is excused until a save has run alone.                 *)
PairTypes ==
    /\ issued \in Nat /\ issued >= Torn
    /\ crt = [d \in Domain |-> crt[d]] /\ key = [d \in Domain |-> key[d]]
    /\ \A d \in Domain : crt[d] \in 0..issued /\ key[d] \in 0..issued
    /\ \A s \in Slot : Busy(s) =>
          /\ calls[s].gen \in 0..issued
          /\ calls[s].pc \in {"crt0"} \cup Saving => calls[s].gen > Torn

Saves(s, d) == Busy(s) /\ calls[s].pc \in Saving /\ DomainOf(s) = d

SaverHeld(s, d) ==
    /\ calls[s].solo =>
          /\ \A t \in Slot : Saves(t, d) => t = s
          /\ calls[s].pc \in {"key0", "key1"} => crt[d] = calls[s].gen
    /\ ~calls[s].solo => d \in hist.spoiled

Whole(d) == crt[d] = key[d] /\ crt[d] > Torn

DomainHeld(d) ==
    /\ \A s \in Slot : Saves(s, d) => SaverHeld(s, d)
    /\ (d \notin hist.spoiled /\ checkCertfile(d) /\ \A s \in Slot : ~Saves(s, d)) => Whole(d)

PairInv == PairTypes /\ \A d \in Domain : DomainHeld(d)

(* Savers, one call at a time.                                              *)
LEMMA SaversSaves ==
  ASSUME NEW d
  PROVE  (Savers(d) = {}) <=> \A s \in Slot : ~Saves(s, d)
BY DEF Savers, Saves

(* What becomes of a domain depends on its own calls only.                  *)
LEMMA PairOther ==
  ASSUME NEW d \in Domain, DomainHeld(d), local' = local,
         crt'[d] = crt[d], key'[d] = key[d], d \in hist'.spoiled <=> d \in hist.spoiled,
         \A t \in Slot : (Busy(t) /\ calls[t].pc \in Saving) \/ (Busy(t)' /\ calls'[t].pc \in Saving)
            => \/ DomainOf(t) # d /\ DomainOf(t)' # d
               \/ /\ Busy(t) /\ Busy(t)' /\ calls'[t].pc = calls[t].pc
                  /\ calls'[t].node = calls[t].node /\ calls'[t].gen = calls[t].gen
                  /\ calls'[t].solo = calls[t].solo
  PROVE  DomainHeld(d)'
<1>1. ASSUME NEW t \in Slot
      PROVE  /\ Saves(t, d)' <=> Saves(t, d)
             /\ Saves(t, d) => /\ calls'[t].pc = calls[t].pc /\ calls'[t].gen = calls[t].gen
                               /\ calls'[t].solo = calls[t].solo
  <2>1. calls'[t].node = calls[t].node => DomainOf(t)' = DomainOf(t)
    BY DEF DomainOf, Cert
  <2> QED BY <2>1 DEF Saves
<1>2. ASSUME NEW s \in Slot, Saves(s, d)'
      PROVE  SaverHeld(s, d)'
  <2>1. SaverHeld(s, d)  BY <1>1, <1>2 DEF DomainHeld
  <2> QED BY <1>1, <1>2, <2>1 DEF SaverHeld
<1>3. ASSUME d \notin hist'.spoiled, checkCertfile(d)', \A s \in Slot : ~Saves(s, d)'
      PROVE  Whole(d)'
  <2>1. d \notin hist.spoiled /\ checkCertfile(d) /\ \A s \in Slot : ~Saves(s, d)
    BY <1>1, <1>3 DEF checkCertfile
  <2> QED BY <2>1 DEF DomainHeld, Whole
<1> QED BY <1>2, <1>3 DEF DomainHeld

(* A step after which the same calls are saving.                            *)
LEMMA PairQuiet ==
  ASSUME PairInv, UNCHANGED <<local, crt, key>>, PairTypes', hist'.spoiled = hist.spoiled,
         \A t \in Slot : (Busy(t) /\ calls[t].pc \in Saving) \/ (Busy(t)' /\ calls'[t].pc \in Saving)
            => /\ Busy(t) /\ Busy(t)' /\ calls'[t].pc = calls[t].pc
               /\ calls'[t].node = calls[t].node /\ calls'[t].gen = calls[t].gen
               /\ calls'[t].solo = calls[t].solo
  PROVE  PairInv'
BY PairOther DEF PairInv

(* The panics of a call that is not saving, and the steps far from a save.  *)
LEMMA PairFar ==
  ASSUME Calls, PairInv, NEW s \in Slot, Busy(s), UNCHANGED <<local, crt, key, issued>>,
         calls[s].pc \notin Saving, hist'.spoiled = hist.spoiled,
         (\E ok : Leaves(s, ok)) \/ Over(s)
         \/ (Frame(s) /\ KeepsGen(s) /\ calls'[s].pc \notin {"crt0"} \cup Saving)
  PROVE  PairInv'
<1>1. \A t \in Slot : t # s => calls'[t] = calls[t]  BY DEF Leaves, Frame, Over
<1>2. Busy(s)' => calls'[s].pc \notin {"crt0"} \cup Saving /\ calls'[s].gen \in 0..issued
  <2>1. CASE \E ok : Leaves(s, ok)
    BY <2>1 DEF Leaves, Saving, Absent, PairInv, PairTypes
  <2>2. CASE Over(s)  BY <2>2 DEF Over, Busy
  <2>3. CASE Frame(s) /\ KeepsGen(s) /\ calls'[s].pc \notin {"crt0"} \cup Saving
    BY <2>3 DEF KeepsGen, PairInv, PairTypes
  <2> QED BY <2>1, <2>2, <2>3
<1>3. PairTypes'  BY <1>1, <1>2 DEF PairInv, PairTypes, Busy
<1> QED BY <1>1, <1>2, <1>3, PairQuiet DEF Busy

(* A call that is not saving cuts no save.                                  *)
LEMMA CutFar ==
  ASSUME NEW s \in Slot, calls[s].pc \notin Saving
  PROVE  Cut({s}) = {}
BY DEF Cut

LEMMA PairPanicFar ==
  ASSUME Calls, PairInv, NEW s \in Slot, Busy(s), UNCHANGED <<local, crt, key, issued>>,
         calls[s].pc \notin Saving, Panics(s)
  PROVE  PairInv'
<1>1. hist'.spoiled = hist.spoiled \cup {} /\ \E ok : Leaves(s, ok)
  BY CutFar DEF Panics, HistTo
<1> QED BY <1>1, PairFar

(* A step of a call that saves the pair of x: what is left to show of it.   *)
LEMMA PairOwn ==
  ASSUME Calls, PairInv, NEW s \in Slot, NEW x \in Domain, Saves(s, x), Frame(s), local' = local,
         PairTypes', KeepsGen(s) \/ calls'[s].pc = "leave",
         \A d \in Domain : d # x => /\ crt'[d] = crt[d] /\ key'[d] = key[d]
                                    /\ d \in hist'.spoiled <=> d \in hist.spoiled,
         x \in hist.spoiled => x \in hist'.spoiled \/ calls[s].solo,
         calls'[s].pc \in Saving =>
            /\ calls'[s].solo = calls[s].solo
            /\ calls[s].solo /\ calls'[s].pc \in {"key0", "key1"} => crt'[x] = calls'[s].gen,
         calls'[s].pc \notin Saving /\ x \notin hist'.spoiled /\ checkCertfile(x)' => Whole(x)'
  PROVE  PairInv'
<1>1. \A t \in Slot : DomainOf(t)' = DomainOf(t)  BY DEF DomainOf, Cert, Frame
<1>2. \A t \in Slot \ {s} : calls'[t] = calls[t] /\ (Saves(t, x)' <=> Saves(t, x))
  BY <1>1 DEF Saves, Busy, Frame
<1>3. \A d \in Domain : DomainHeld(d)  BY DEF PairInv
<1>4. ASSUME NEW d \in Domain, d # x
      PROVE  DomainHeld(d)'
  <2>1. DomainOf(s) # d /\ DomainOf(s)' # d  BY <1>1, <1>4 DEF Saves
  <2> QED BY <1>2, <1>3, <1>4, <2>1, PairOther DEF Busy
<1>5. SaverHeld(s, x) /\ DomainHeld(x)  BY <1>3 DEF DomainHeld
<1>6. calls[s].solo => \A t \in Slot \ {s} : ~Saves(t, x)'
  BY <1>2, <1>5 DEF SaverHeld
<1>7. ~calls[s].solo => x \in hist'.spoiled  BY <1>5 DEF SaverHeld
<1>8. ASSUME NEW t \in Slot, Saves(t, x)'
      PROVE  SaverHeld(t, x)'
  <2>1. CASE t = s
    <3>1. calls'[s].pc \in Saving  BY <1>8, <2>1 DEF Saves
    <3> QED BY <1>6, <1>7, <2>1, <3>1 DEF SaverHeld
  <2>2. CASE t # s
    <3>1. Saves(t, x) /\ calls'[t] = calls[t] /\ ~calls[s].solo
      BY <1>2, <1>6, <1>8, <2>2
    <3>2. ~calls[t].solo  BY <1>5, <2>2, <3>1 DEF DomainHeld, SaverHeld
    <3> QED BY <1>7, <3>1, <3>2 DEF SaverHeld
  <2> QED BY <2>1, <2>2
<1>9. ASSUME x \notin hist'.spoiled, checkCertfile(x)', \A t \in Slot : ~Saves(t, x)'
      PROVE  Whole(x)'
  <2>1. calls'[s].pc \notin Saving
    BY <1>1, <1>9 DEF Saves, Busy, Frame
  <2> QED BY <1>9, <2>1
<1>10. DomainHeld(x)'  BY <1>8, <1>9 DEF DomainHeld
<1> QED BY <1>4, <1>10 DEF PairInv

(* The three writes that follow the truncation of the certificate.          *)
LEMMA PairWrites ==
  ASSUME Calls, PairInv, NEW s \in Slot, WriteCrt(s) \/ TruncateKey(s) \/ WriteKey(s)
  PROVE  PairInv'
<1>1. /\ Busy(s) /\ calls[s].pc \in {"crt1", "key0", "key1"} /\ Frame(s) /\ KeepsGen(s)
      /\ UNCHANGED <<local, issued>> /\ calls'[s].solo = calls[s].solo
  BY WriteCrtEffect, TruncateKeyEffect, WriteKeyEffect DEF Moves
<1>2. PICK x \in Domain : x = DomainOf(s)  BY <1>1, CallSite
<1>3. Saves(s, x)  BY <1>1, <1>2 DEF Saves, Saving
<1>4. /\ \A d \in Domain : DomainHeld(d)
      /\ issued \in Nat /\ issued >= Torn
      /\ calls[s].gen \in 0..issued /\ calls[s].gen > Torn /\ calls'[s].gen = calls[s].gen
      /\ crt = [d \in Domain |-> crt[d]] /\ key = [d \in Domain |-> key[d]]
  BY <1>1 DEF PairInv, PairTypes, Saving, KeepsGen
<1>5. SaverHeld(s, x)  BY <1>2, <1>3, <1>4 DEF DomainHeld
<1>6. CASE WriteCrt(s)
  <2>1. /\ calls'[s].pc = "key0" /\ crt' = [crt EXCEPT ![x] = calls[s].gen]
        /\ UNCHANGED <<key, hist>>
    BY <1>2, <1>6, WriteCrtEffect DEF Moves
  <2>2. PairTypes'
    BY <1>1, <1>2, <1>4, <2>1 DEF PairInv, PairTypes, Frame, Busy, Saving, Torn
  <2>3. /\ crt'[x] = calls[s].gen /\ \A d \in Domain : d # x => crt'[d] = crt[d]
    BY <1>2, <1>4, <2>1
  <2>4. calls'[s].pc \in Saving  BY <2>1 DEF Saving
  <2> QED BY <1>1, <1>2, <1>3, <1>4, <2>1, <2>2, <2>3, <2>4, PairOwn
<1>7. CASE TruncateKey(s)
  <2>1. /\ calls[s].pc = "key0" /\ calls'[s].pc = "key1" /\ key' = [key EXCEPT ![x] = Torn]
        /\ UNCHANGED <<crt, hist>>
    BY <1>2, <1>7, TruncateKeyEffect DEF Moves
  <2>2. PairTypes'
    BY <1>1, <1>2, <1>4, <2>1 DEF PairInv, PairTypes, Frame, Busy, Saving, Torn
  <2>3. /\ \A d \in Domain : d # x => key'[d] = key[d]
        /\ calls[s].solo => crt[x] = calls[s].gen
    BY <1>2, <1>4, <1>5, <2>1 DEF SaverHeld
  <2>4. calls'[s].pc \in Saving  BY <2>1 DEF Saving
  <2> QED BY <1>1, <1>2, <1>3, <1>4, <2>1, <2>2, <2>3, <2>4, PairOwn
<1>8. CASE WriteKey(s)
  <2>1. /\ calls[s].pc = "key1" /\ calls'[s].pc = "recheck"
        /\ key' = [key EXCEPT ![x] = calls[s].gen] /\ crt' = crt
        /\ hist'.spoiled = IF calls[s].solo THEN hist.spoiled \ {x} ELSE hist.spoiled
    BY <1>2, <1>8, WriteKeyEffect DEF Moves, HistTo
  <2>2. PairTypes'
    BY <1>1, <1>2, <1>4, <2>1 DEF PairInv, PairTypes, Frame, Busy, Saving, Torn
  <2>3. /\ key'[x] = calls[s].gen /\ \A d \in Domain : d # x => key'[d] = key[d]
        /\ calls[s].solo => crt[x] = calls[s].gen
        /\ ~calls[s].solo => x \in hist.spoiled
    BY <1>2, <1>4, <1>5, <2>1 DEF SaverHeld
  <2>4. calls'[s].pc \notin Saving  BY <2>1 DEF Saving
  <2>5. x \notin hist'.spoiled => Whole(x)'
    BY <1>4, <2>1, <2>3 DEF Whole
  <2> QED BY <1>1, <1>2, <1>3, <1>4, <2>1, <2>3, <2>4, <2>5, <2>2, PairOwn
<1> QED BY <1>6, <1>7, <1>8

(* A save that stops half way spoils its domain if a key was there.         *)
LEMMA PairFails ==
  ASSUME Calls, PairInv, NEW s \in Slot, Busy(s), Panics(s), UNCHANGED <<local, crt, key, issued>>
  PROVE  PairInv'
<1>1. CASE calls[s].pc \notin Saving  BY <1>1, PairPanicFar
<1>2. CASE calls[s].pc \in Saving
  <2>0. PICK x \in Domain : x = DomainOf(s)  BY CallSite
  <2>1. Saves(s, x)  BY <1>2, <2>0 DEF Saves
  <2>2. Frame(s) /\ calls'[s].pc = "leave" /\ calls'[s].gen = Absent  BY DEF Panics, Leaves
  <2>3. hist'.spoiled = hist.spoiled \cup (IF key[x] # Absent THEN {x} ELSE {})
    <3>1. Cut({s}) = IF key[x] # Absent THEN {x} ELSE {}  BY <1>2, <2>0 DEF Cut
    <3> QED BY <3>1 DEF Panics, HistTo
  <2>4. PairTypes'
    BY <2>2 DEF PairInv, PairTypes, Frame, Busy, Absent, Saving
  <2>5. calls'[s].pc \notin Saving  BY <2>2 DEF Saving
  <2>6. x \notin hist'.spoiled => ~checkCertfile(x)'  BY <2>3 DEF checkCertfile
  <2> QED BY <2>1, <2>2, <2>3, <2>4, <2>5, <2>6, PairOwn
<1> QED BY <1>1, <1>2

(* A save begins: alone, or over another one.                               *)
LEMMA PairTruncates ==
  ASSUME Calls, PairInv, NEW s \in Slot, TruncateCrt(s)
  PROVE  PairInv'
<1>0. Busy(s)  BY TruncateHist
<1>2. PICK x \in Domain : x = DomainOf(s)  BY <1>0, CallSite
<1>9. PICK D : D = Savers(x)  OBVIOUS
<1>1. /\ Busy(s) /\ calls[s].pc = "crt0" /\ crt' = [crt EXCEPT ![x] = Torn]
      /\ UNCHANGED <<local, key, issued>>
      /\ hist'.spoiled = IF D = {} THEN hist.spoiled ELSE hist.spoiled \cup {x}
  BY <1>2, <1>9, TruncateHist DEF HistTo
<1>3. D = {t \in Slot : Saves(t, x)}  BY <1>9 DEF Savers, Saves
<1>4. \A t \in Slot :
         /\ calls'[t].pc = IF t = s THEN "crt1" ELSE calls[t].pc
         /\ Busy(t) => calls'[t].node = calls[t].node /\ calls'[t].gen = calls[t].gen
         /\ t \notin D \cup {s} => calls'[t] = calls[t]
         /\ t \in D /\ t # s => calls'[t].solo = FALSE
  <2>1. D = Savers(DomainOf(s))  BY <1>2, <1>9
  <2>2. \A t \in Slot : /\ calls'[t].pc = IF t = s THEN "crt1" ELSE calls[t].pc
                        /\ Busy(t) => calls'[t].node = calls[t].node /\ KeepsGen(t)
    BY TruncateEffect
  <2>3. \A t \in Slot : t \notin D \cup {s} => calls'[t] = calls[t]
    BY <2>1 DEF TruncateCrt
  <2>4. \A t \in Slot : t \in D /\ t # s => calls'[t].solo = FALSE
    BY <2>1, TruncateEffect
  <2> QED BY <2>2, <2>3, <2>4 DEF KeepsGen
<1>5. calls'[s].solo = (D = {})  BY <1>2, <1>9, TruncateEffect
<1>6. ~Saves(s, x)  BY <1>1 DEF Saves, Saving
<1>7. \A t \in Slot : Busy(t) => Busy(t)' /\ DomainOf(t)' = DomainOf(t)
  BY <1>1, <1>4 DEF Busy, DomainOf, Cert
<1>8. \A t \in Slot : t # s => (Busy(t)' <=> Busy(t))  BY <1>4 DEF Busy
<1>13. DomainOf(s) = x /\ DomainOf(s)' = x  BY <1>1, <1>2, <1>7
<1>10. PairTypes'
  <2>1. issued \in Nat /\ issued >= Torn /\ crt = [d \in Domain |-> crt[d]]  BY DEF PairInv, PairTypes
  <2>2. \A t \in Slot : Busy(t)' => Busy(t)  BY <1>1, <1>8
  <2>3. \A t \in Slot : Busy(t)' => /\ calls'[t].gen \in 0..issued
                                    /\ calls'[t].pc \in {"crt0"} \cup Saving => calls'[t].gen > Torn
    BY <1>1, <1>4, <2>2 DEF PairInv, PairTypes, Saving
  <2>4. \A d \in Domain : crt'[d] \in 0..issued
    BY <1>1, <1>2, <2>1 DEF PairInv, PairTypes, Torn
  <2> QED BY <1>1, <2>1, <2>3, <2>4 DEF PairInv, PairTypes
<1>11. ASSUME NEW d \in Domain, d # x
       PROVE  DomainHeld(d)'
  <2>1. /\ DomainHeld(d) /\ crt'[d] = crt[d] /\ key'[d] = key[d]
        /\ d \in hist'.spoiled <=> d \in hist.spoiled
    BY <1>1, <1>11 DEF PairInv, PairTypes
  <2>2. \A t \in Slot :
           (Busy(t) /\ calls[t].pc \in Saving) \/ (Busy(t)' /\ calls'[t].pc \in Saving)
            => \/ DomainOf(t) # d /\ DomainOf(t)' # d
               \/ /\ Busy(t) /\ Busy(t)' /\ calls'[t].pc = calls[t].pc
                  /\ calls'[t].node = calls[t].node /\ calls'[t].gen = calls[t].gen
                  /\ calls'[t].solo = calls[t].solo
    <3>1. ASSUME NEW t \in Slot, t \in D
          PROVE  DomainOf(t) # d /\ DomainOf(t)' # d
      BY <1>3, <1>7, <1>11, <3>1 DEF Saves
    <3> QED BY <1>4, <1>8, <1>13, <1>11, <3>1 DEF Busy
  <2> QED BY <1>1, <2>1, <2>2, PairOther
<1>12. DomainHeld(x)'
  <2>1. Saves(s, x)'  BY <1>1, <1>4, <1>7, <1>13 DEF Saves, Saving
  <2>2. \A t \in Slot : Saves(t, x)' => t = s \/ t \in D
    BY <1>3, <1>4, <1>7, <1>8 DEF Saves
  <2>3. ASSUME NEW t \in Slot, Saves(t, x)'
        PROVE  SaverHeld(t, x)'
    <3>1. CASE D = {}
      <4>1. t = s /\ \A u \in Slot : Saves(u, x)' => u = s  BY <2>2, <2>3, <3>1
      <4> QED BY <1>4, <1>5, <3>1, <4>1 DEF SaverHeld
    <3>2. CASE D # {}
      <4>1. x \in hist'.spoiled /\ ~calls'[t].solo  BY <1>1, <1>4, <1>5, <2>2, <2>3, <3>2
      <4> QED BY <4>1 DEF SaverHeld
    <3> QED BY <3>1, <3>2
  <2> QED BY <2>1, <2>3 DEF DomainHeld
<1> QED BY <1>10, <1>11, <1>12 DEF PairInv

(* Every step keeps the pairs.                                              *)
LEMMA PairStep ==
  ASSUME Calls, PairInv, NEW s \in Slot, Step(s)
  PROVE  PairInv'
<1>1. ASSUME NEW ok, Busy(s), calls[s].pc \notin Saving, Leaves(s, ok), UNCHANGED <<local, files>>,
             hist'.spoiled = hist.spoiled
      PROVE  PairInv'
  BY <1>1, PairFar DEF files
<1>2. ASSUME Busy(s), Panics(s), UNCHANGED <<local, files>>
      PROVE  PairInv'
  BY <1>2, PairFails DEF files
<1>3. ASSUME Busy(s), calls[s].pc \notin Saving, Frame(s), KeepsGen(s),
             calls'[s].pc \notin {"crt0"} \cup Saving,
             UNCHANGED <<local, crt, key, issued>>, hist'.spoiled = hist.spoiled
      PROVE  PairInv'
  BY <1>3, PairFar
<1>4. ApplyDNSEnv(s) => PairInv'
  <2>1. SUFFICES ASSUME ApplyDNSEnv(s) PROVE PairInv'  OBVIOUS
  <2>2. Busy(s) /\ calls[s].pc \notin Saving /\ UNCHANGED <<local, files>>
    BY <2>1, ApplyEffect DEF Saving
  <2>3. CASE Leaves(s, FALSE) /\ hist' = hist  BY <1>1, <2>2, <2>3
  <2>4. CASE /\ Frame(s) /\ calls'[s].pc = "env" /\ KeepsGen(s)
             /\ \E c : HistTo(c, hist.raced, hist.spoiled, hist.lapse)
    BY <1>3, <2>2, <2>4 DEF HistTo, files, Saving
  <2> QED BY <2>1, <2>3, <2>4, ApplyEffect
<1>5. FirstCheck(s) => PairInv'
  BY <1>1, <1>3, FirstCheckEffect DEF Saving, files, Moves
<1>6. GetPrivateKey(s) => PairInv'
  <2>1. SUFFICES ASSUME GetPrivateKey(s) PROVE PairInv'  OBVIOUS
  <2>2. Busy(s) /\ calls[s].pc \notin Saving /\ UNCHANGED <<local, files>>
    BY <2>1, GetPrivateKeyEffect DEF Saving
  <2>3. CASE /\ Moves(s, "create") \/ Moves(s, "account")
             /\ KeepsGen(s)
             /\ hist' = hist \/ \E r : HistTo(hist.crossed, r, hist.spoiled, hist.lapse)
    BY <1>3, <2>2, <2>3 DEF HistTo, files, Saving, Moves
  <2> QED BY <1>2, <2>1, <2>2, <2>3, GetPrivateKeyEffect
<1>7. CreateKeyFile(s) => PairInv'
  BY <1>3, CreateKeyFileEffect DEF Saving, Moves
<1>8. EncodeKey(s) => PairInv'  BY <1>3, EncodeKeyEffect DEF Saving, Moves
<1>9. LoadAccount(s) => PairInv'
  BY <1>2, <1>3, LoadAccountEffect DEF Saving, Moves, files
<1>10. SetupChallenges(s) => PairInv'
  BY <1>2, <1>3, SetupChallengesEffect DEF Saving, Moves, files
<1>11. Register(s) => PairInv'  BY <1>3, RegisterEffect DEF Saving, Moves
<1>12. SaveAccount(s) => PairInv'  BY <1>3, SaveAccountEffect DEF Saving, Moves
<1>13. RenewForDomains(s) => PairInv'
  <2>1. SUFFICES ASSUME RenewForDomains(s) PROVE PairInv'  OBVIOUS
  <2>2. Busy(s) /\ calls[s].pc \notin Saving /\ UNCHANGED <<local, files>>
    BY <2>1, RenewForDomainsEffect DEF Saving
  <2>3. CASE Moves(s, "obtain") /\ KeepsGen(s) /\ hist' = hist
    BY <1>3, <2>2, <2>3 DEF Saving, Moves, files
  <2> QED BY <1>1, <1>2, <2>1, <2>2, <2>3, RenewForDomainsEffect
<1>14. Obtain(s) => PairInv'
  <2>1. SUFFICES ASSUME Obtain(s) PROVE PairInv'  OBVIOUS
  <2>2. /\ Busy(s) /\ calls[s].pc = "obtain" /\ UNCHANGED <<local, crt, key>>
    BY <2>1, ObtainEffect
  <2>3. CASE Panics(s) /\ issued' = issued  BY <2>2, <2>3, PairFails
  <2>4. CASE /\ Moves(s, "crt0") /\ calls'[s].gen = issued + 1 /\ issued' = issued + 1
             /\ hist' = hist
    <3>1. Frame(s) /\ calls'[s].pc = "crt0"  BY <2>4 DEF Moves
    <3>2. PairTypes'
      BY <2>2, <2>4, <3>1 DEF PairInv, PairTypes, Frame, Busy, Saving, Torn
    <3>3. "obtain" \notin Saving /\ "crt0" \notin Saving  BY DEF Saving
    <3> QED BY <2>2, <2>4, <3>1, <3>2, <3>3, PairQuiet DEF Frame, Busy
  <2> QED BY <2>1, <2>3, <2>4, ObtainEffect
<1>15. LastCheck(s) => PairInv'  BY <1>1, LastCheckEffect DEF Saving
<1>16. Cleanup(s) => PairInv'  BY <1>3, CleanupEffect DEF Saving, files
<1>17. Return(s) => PairInv'
  <2>1. SUFFICES ASSUME Return(s) PROVE PairInv'  OBVIOUS
  <2>2. /\ Busy(s) /\ calls[s].pc = "leave" /\ Over(s) /\ UNCHANGED <<local, files>>
        /\ hist'.spoiled = hist.spoiled
    BY <2>1, ReturnEffect DEF HistTo
  <2> QED BY <2>2, PairFar DEF Saving, files
<1>18. Fails(s) => PairInv'  BY <1>2, FailsEffect
<1> QED BY <1>4, <1>5, <1>6, <1>7, <1>8, <1>9, <1>10, <1>11, <1>12, <1>13, <1>14, <1>15, <1>16,
           <1>17, <1>18, PairWrites, PairTruncates DEF Step

LEMMA PairNext ==
  ASSUME Calls, PairInv, [Next]_vars
  PROVE  PairInv'
<1>1. ASSUME UNCHANGED <<local, crt, key, issued, calls>>, hist'.spoiled = hist.spoiled
      PROVE  PairInv'
  <2>1. PairTypes'  BY <1>1 DEF PairInv, PairTypes, Busy
  <2> QED BY <1>1, <2>1, PairQuiet DEF Busy
<1>2. CASE UNCHANGED vars  BY <1>1, <1>2 DEF vars
<1>3. CASE Start \/ \E n \in Node : Rebuild(n) \/ Tick(n) \/ TickRebuilt(n)
  <2>1. UNCHANGED <<local, files, hist>> /\ (UNCHANGED calls \/ \E n, kind, r : Made(n, kind, r))
    BY <1>3, MakerSteps DEF BuiltBare
  <2>2. CASE UNCHANGED calls  BY <1>1, <2>1, <2>2 DEF files
  <2>3. ASSUME NEW n, NEW kind, NEW r, Made(n, kind, r)
        PROVE  PairInv'
    <3>1. PICK s \in Slot : /\ ~Busy(s) /\ \A t \in Slot : t # s => calls'[t] = calls[t]
                            /\ calls'[s] = NewCall(n, kind, r)
      BY <2>3 DEF Made
    <3>2. calls'[s].pc \notin {"crt0"} \cup Saving /\ calls'[s].gen = Absent
      BY <3>1 DEF NewCall, Saving
    <3>3. PairTypes'
      BY <2>1, <3>1, <3>2 DEF PairInv, PairTypes, Busy, Absent, files
    <3> QED BY <2>1, <3>1, <3>2, <3>3, PairQuiet DEF files, Busy
  <2> QED BY <2>1, <2>2, <2>3
<1>4. CASE DayPasses  BY <1>1, <1>4, DayHist DEF DayPasses
<1>5. CASE Crash
  <2> DEFINE B == {s \in Slot : Busy(s)}
  <2>1. /\ UNCHANGED <<local, crt, key, issued>> /\ calls' = [s \in Slot |-> Idle]
        /\ hist'.spoiled = hist.spoiled \cup Cut(B)
    BY <1>5 DEF Crash, files, Calls
  <2>2. \A s \in Slot : ~Busy(s)'  BY <2>1 DEF Busy, Idle
  <2>3. PairTypes'  BY <2>1, <2>2 DEF PairInv, PairTypes
  <2>4. ASSUME NEW d \in Domain
        PROVE  DomainHeld(d)'
    <3>1. \A s \in Slot : ~Saves(s, d)'  BY <2>2 DEF Saves
    <3>2. ASSUME d \notin hist'.spoiled, checkCertfile(d)'
          PROVE  Whole(d)'
      <4>1. d \notin hist.spoiled /\ d \notin Cut(B) /\ checkCertfile(d)
        BY <2>1, <3>2 DEF checkCertfile
      <4>2. \A s \in Slot : ~Saves(s, d)  BY <4>1 DEF Cut, Saves, checkCertfile
      <4> QED BY <2>1, <2>4, <4>1, <4>2 DEF PairInv, DomainHeld, Whole
    <3> QED BY <3>1, <3>2 DEF DomainHeld
  <2> QED BY <2>3, <2>4 DEF PairInv
<1> QED BY <1>2, <1>3, <1>4, <1>5, PairStep DEF Next

-----------------------------------------------------------------------------
(* The inbounds.                                                            *)

(* A TLS inbound that is built has the pair of files it was given, or the   *)
(* certificate that was asked for.                                          *)
LEMMA BuilderPair ==
  ASSUME NEW l, NEW info, NEW cert, NEW b, b = InboundBuilder(l, info, cert),
         b.ok, b.stream.Security = "tls"
  PROVE  IF Acme(l) THEN cert /\ b.stream.settings.pair = l.CertConfig.CertDomain
         ELSE b.stream.settings.pair = "file"
<1> DEFINE stream == buildStreamSetting(l, info, cert)
<1>1. stream.ok /\ b.stream = stream
  BY DEF InboundBuilder, buildAnyTLSHandlerConfig, buildVless, Handler, Fail
<1>2. /\ resolveSecurity(l, info) = "tls" /\ stream.settings = SecuritySettings(l, info, cert)
      /\ stream.settings.ok
  BY <1>1 DEF buildStreamSetting, Fail
<1>3. stream.settings = buildTLSSettings(l, cert)  BY <1>2 DEF SecuritySettings
<1>4. /\ CertMode(l) = "file" \/ (Acme(l) /\ cert)
      /\ stream.settings.pair = IF Acme(l) THEN l.CertConfig.CertDomain ELSE "file"
  <2> HIDE DEF stream
  <2> QED BY <1>2, <1>3 DEF buildTLSSettings, Fail
<1>5. CertMode(l) = "file" => ~Acme(l)  BY DEF Acme
<1> HIDE DEF stream
<1> QED BY <1>1, <1>4, <1>5

(* Sequences of three.                                                      *)
LEMMA Triple ==
  ASSUME NEW a, NEW b, NEW c, NEW s, s = <<a, b, c>>
  PROVE  s[1] = a /\ DOMAIN s = {1, 2, 3}
OBVIOUS

(* The first of several settings wins when it is set.                      *)
LEMMA FirstSetHead ==
  ASSUME NEW a, NEW b, NEW c, a # Blank
  PROVE  FirstSet(<<a, b, c>>) = a
<1> DEFINE s == <<a, b, c>>
<1>1. s[1] # Blank /\ s[1] = a /\ DOMAIN s = {1, 2, 3}  BY Triple
<1> HIDE DEF s
<1> DEFINE Leading(m) == s[m] # Blank /\ \A j \in 1..(m - 1) : s[j] = Blank
           first == CHOOSE m \in DOMAIN s : Leading(m)
<1>2. 1 \in DOMAIN s /\ Leading(1)
  <2>1. \A j \in 1..(1 - 1) : FALSE  OBVIOUS
  <2> QED BY <1>1, <2>1
<1>3. first \in DOMAIN s /\ Leading(first)
  <2> HIDE DEF Leading
  <2> QED BY <1>2
<1>4. first = 1
  <2> HIDE DEF first
  <2>1. first \in {1, 2, 3} /\ \A j \in 1..(first - 1) : s[j] = Blank  BY <1>1, <1>3
  <2>2. first # 1 => 1 \in 1..(first - 1)  BY <2>1
  <2> QED BY <1>1, <2>1, <2>2
<1>5. FirstSet(s) = s[first]  BY <1>1 DEF FirstSet
<1>6. FirstSet(s) = a  BY <1>1, <1>4, <1>5
<1> QED BY <1>6 DEF s

(* The values a local configuration may fix are not blank.                  *)
LEMMA BlankIsNoName ==
  "tls" # Blank /\ "reality" # Blank
BY Zenon DEF Blank

(* What a full local configuration makes of a node does not depend on what *)
(* the panel says, the port aside, nor on the certificate that was asked    *)
(* for.                                                                     *)
LEMMA LocalBuilder ==
  ASSUME NEW l, FullyLocal(l), NEW i, NEW j, NEW c, NEW d,
         InboundBuilder(l, i, c).ok, InboundBuilder(l, j, d).ok
  PROVE  SamePort(InboundBuilder(l, i, c)) = SamePort(InboundBuilder(l, j, d))
<1> DEFINE net == TransportBuild(normalizeTransportProtocol(l.Transport))
           trans == TransportSettings(l, net)
           sec == IF l.Security = "tls" THEN "tls" ELSE Blank
           pair == IF Acme(l) THEN l.CertConfig.CertDomain ELSE "file"
           sett == IF sec = "tls" THEN [ok |-> TRUE, pair |-> pair] ELSE [ok |-> TRUE]
           stream == [ok |-> TRUE, network |-> net, transport |-> trans, Security |-> sec,
                      settings |-> sett, proxy |-> l.EnableProxyProtocol]
           proxy == IF l.NodeType = "anytls" THEN [fallback |-> l.AnyTLSFallback]
                    ELSE [decryption |-> l.VlessDecryption, fallbacks |-> l.EnableFallback,
                          flow |-> (l.Vision = "on")]
           sniff == ~l.DisableSniffing
           handler(port) == [ok |-> TRUE, protocol |-> l.NodeType, port |-> port,
                             sniffing |-> sniff, stream |-> stream,
                             ProxySettings |-> proxy]
<1>1. ASSUME NEW info, NEW cert, InboundBuilder(l, info, cert).ok
      PROVE  InboundBuilder(l, info, cert) = handler(info.port)
  <2>1. resolveTransport(l, info) = normalizeTransportProtocol(l.Transport)
    <3>1. FirstSet(<<l.Transport, info.TransportProtocol, "tcp">>) = l.Transport
      BY FirstSetHead DEF FullyLocal
    <3> QED BY <3>1 DEF resolveTransport
  <2>2. resolveSecurity(l, info) = sec
    <3>1. CASE l.Security = "tls"  BY <3>1, BlankIsNoName DEF resolveSecurity, normalizeSecurityType
    <3>2. CASE l.Security = "none"  BY <3>2 DEF resolveSecurity
    <3> QED BY <3>1, <3>2 DEF FullyLocal
  <2>3. resolveVision(l, info) = (l.Vision = "on")
    <3>1. CASE l.Vision = "on"  BY <3>1 DEF resolveVision
    <3>2. CASE l.Vision = "off"  BY <3>2 DEF resolveVision
    <3> QED BY <3>1, <3>2 DEF FullyLocal
  <2>4. resolveVlessDecryption(l, info) = l.VlessDecryption
    <3>1. FirstSet(<<l.VlessDecryption, info.VlessDecryption, "none">>) = l.VlessDecryption
      BY FirstSetHead DEF FullyLocal
    <3> QED BY <3>1 DEF resolveVlessDecryption
  <2> DEFINE st == buildStreamSetting(l, info, cert)
             ss == SecuritySettings(l, info, cert)
  <2>5. st.ok  BY <1>1 DEF InboundBuilder, Fail
  <2>6. /\ ss.ok /\ st = [ok |-> TRUE, network |-> net, transport |-> trans, Security |-> sec,
                          settings |-> ss, proxy |-> l.EnableProxyProtocol]
    BY <2>1, <2>2, <2>5 DEF buildStreamSetting, Fail
  <2>7. ss = sett
    <3>1. CASE sec = "tls"
      <4>1. ss = buildTLSSettings(l, cert)  BY <2>2, <3>1 DEF SecuritySettings
      <4>2. ss = [ok |-> TRUE, pair |-> pair]
        <5> HIDE DEF ss
        <5> QED BY <2>6, <4>1 DEF buildTLSSettings, Fail
      <4> QED BY <3>1, <4>2
    <3>2. CASE sec # "tls"
      <4>1. sec = Blank  BY <3>2
      <4>2. ss = [ok |-> TRUE]  BY <2>2, <4>1, BlankIsNoName DEF SecuritySettings
      <4> QED BY <3>2, <4>2
    <3> QED BY <3>1, <3>2
  <2>8. st = stream  BY <2>6, <2>7
  <2> HIDE DEF st, stream
  <2>9. InboundBuilder(l, info, cert) =
          IF l.NodeType = "anytls" THEN buildAnyTLSHandlerConfig(l, info, stream)
          ELSE buildVless(l, info, stream)
    BY <2>5, <2>8 DEF InboundBuilder, st
  <2>10. CASE l.NodeType = "anytls"
    BY <1>1, <2>9, <2>10 DEF buildAnyTLSHandlerConfig, Handler, Fail
  <2>11. CASE l.NodeType # "anytls"
    BY <1>1, <2>3, <2>4, <2>9, <2>11 DEF buildVless, Handler, Fail
  <2> QED BY <2>10, <2>11
<1>2. ASSUME NEW p
      PROVE  SamePort(handler(p)) = handler(0)
  <2> HIDE DEF stream, proxy, sniff
  <2>1. PICK b : b = handler(p)  OBVIOUS
  <2> DEFINE F == {"ok", "protocol", "port", "sniffing", "stream", "ProxySettings"}
  <2>2. b = [f \in F |-> b[f]]  BY <2>1
  <2>3. SamePort(b) = [f \in F |-> IF f = "port" THEN 0 ELSE b[f]]  BY <2>2 DEF SamePort
  <2>4. SamePort(b) = handler(0)  BY <2>1, <2>3
  <2> QED BY <2>1, <2>4
<1> HIDE DEF handler
<1> QED BY <1>1, <1>2

(* An inbound was built from the response behind it, and when a certificate *)
(* was asked for, both its files were there.                                *)
BuiltFrom(n) == \E cert :
    /\ inbound[n] = InboundBuilder(local[n], Info(n, resp[n]), cert)
    /\ cert /\ Acme(local[n]) => checkCertfile(Cert(n).CertDomain)

CallFound(s) ==
    /\ calls[s].pc = "renew" => calls[s].kind = "renew"
    /\ calls[s].pc = "leave" /\ calls[s].ok /\ calls[s].kind # "renew" =>
          checkCertfile(DomainOf(s))

BuildInv ==
    /\ inbound = [n \in Node |-> inbound[n]] /\ resp = [n \in Node |-> resp[n]]
    /\ \A n \in Node : inbound[n].ok => BuiltFrom(n)
    /\ \A s \in Slot : Busy(s) => CallFound(s)

(* No step takes a certificate or a key away.                               *)
LEMMA FilesStay ==
  ASSUME Calls, PairInv, [Next]_vars, NEW d \in Domain, checkCertfile(d)
  PROVE  local' = local /\ checkCertfile(d)'
<1>1. ASSUME UNCHANGED files
      PROVE  checkCertfile(d)'
  BY <1>1 DEF files, checkCertfile
<1>2. CASE UNCHANGED vars  BY <1>2 DEF vars, checkCertfile
<1>3. CASE Start \/ \E n \in Node : Rebuild(n) \/ Tick(n) \/ TickRebuilt(n)
  BY <1>1, <1>3, MakerSteps
<1>4. CASE DayPasses  BY <1>4 DEF DayPasses, checkCertfile
<1>5. CASE Crash  BY <1>1, <1>5 DEF Crash
<1>6. ASSUME NEW s \in Slot, Step(s)
      PROVE  local' = local /\ checkCertfile(d)'
  <2>1. local' = local  BY <1>6, StepShapes
  <2>2. ASSUME UNCHANGED <<crt, key>>
        PROVE  checkCertfile(d)'
    BY <2>2 DEF checkCertfile
  <2>3. /\ crt = [c \in Domain |-> crt[c]] /\ key = [c \in Domain |-> key[c]]
        /\ Busy(s) /\ calls[s].pc \in Saving => calls[s].gen > Torn
    BY DEF PairInv, PairTypes
  <2>4. TruncateCrt(s) => checkCertfile(d)'
    <3>1. SUFFICES ASSUME TruncateCrt(s) PROVE checkCertfile(d)'  OBVIOUS
    <3>2. crt' = [crt EXCEPT ![DomainOf(s)] = Torn] /\ key' = key
      BY <3>1, TruncateHist
    <3> QED BY <2>3, <3>2 DEF checkCertfile, Absent, Torn
  <2>5. WriteCrt(s) => checkCertfile(d)'
    <3>1. SUFFICES ASSUME WriteCrt(s) PROVE checkCertfile(d)'  OBVIOUS
    <3>2. /\ calls[s].gen > Torn /\ crt' = [crt EXCEPT ![DomainOf(s)] = calls[s].gen] /\ key' = key
      BY <2>3, <3>1, WriteCrtEffect DEF Saving
    <3> QED BY <2>3, <3>2 DEF checkCertfile, Absent, Torn
  <2>6. TruncateKey(s) => checkCertfile(d)'
    BY <2>3, TruncateKeyEffect DEF checkCertfile, Absent, Torn
  <2>7. WriteKey(s) => checkCertfile(d)'
    <3>1. SUFFICES ASSUME WriteKey(s) PROVE checkCertfile(d)'  OBVIOUS
    <3>2. /\ calls[s].gen > Torn /\ key' = [key EXCEPT ![DomainOf(s)] = calls[s].gen] /\ crt' = crt
      BY <2>3, <3>1, WriteKeyEffect DEF Saving
    <3> QED BY <2>3, <3>2 DEF checkCertfile, Absent, Torn
  <2>8. \/ UNCHANGED <<crt, key>> \/ TruncateCrt(s) \/ WriteCrt(s) \/ TruncateKey(s) \/ WriteKey(s)
    BY <1>6 DEF Step, files, ApplyDNSEnv, FirstCheck, GetPrivateKey, CreateKeyFile, EncodeKey,
                LoadAccount, SetupChallenges, Register, SaveAccount, RenewForDomains, Obtain,
                LastCheck, Cleanup, Return, Fails
  <2> QED BY <2>1, <2>2, <2>4, <2>5, <2>6, <2>7, <2>8
<1> QED BY <1>1, <1>2, <1>3, <1>4, <1>5, <1>6 DEF Next, vars, DayPasses, Crash

(* What the calls found stays found, and what a step claims it has seen.    *)
LEMMA FoundStep ==
  ASSUME Calls, PairInv, BuildInv, NEW s \in Slot, Step(s)
  PROVE  \A t \in Slot : Busy(t)' => CallFound(t)'
<1>1. [Next]_vars  BY DEF Next
<1>2. \A d \in Domain : checkCertfile(d) => local' = local /\ checkCertfile(d)'
  BY <1>1, FilesStay
<1>3. local' = local /\ Busy(s)  BY StepShapes
<1>4. ASSUME NEW t \in Slot, Busy(t), calls'[t].node = calls[t].node, calls'[t].kind = calls[t].kind,
             calls'[t].pc = calls[t].pc, calls'[t].ok = calls[t].ok
      PROVE  CallFound(t)'
  <2>1. CallFound(t) /\ DomainOf(t) \in Domain  BY <1>4, CallSite DEF BuildInv
  <2>2. DomainOf(t)' = DomainOf(t)  BY <1>3, <1>4 DEF DomainOf, Cert
  <2>3. PICK d \in Domain : d = DomainOf(t)  BY <2>1
  <2>4. checkCertfile(d) => checkCertfile(d)'  BY <1>2
  <2>5. checkCertfile(DomainOf(t)) => checkCertfile(DomainOf(t))'
    BY <2>2, <2>3, <2>4 DEF checkCertfile
  <2> QED BY <1>4, <2>1, <2>5 DEF CallFound
<1>5. CASE TruncateCrt(s)
  <2>1. calls'[s].pc = "crt1"  BY <1>5, TruncateEffect
  <2>2. CallFound(s)'  BY <2>1 DEF CallFound
  <2>3. \A t \in Slot \ {s} : Busy(t)' => /\ Busy(t) /\ calls'[t].node = calls[t].node
                                          /\ calls'[t].kind = calls[t].kind
                                          /\ calls'[t].pc = calls[t].pc /\ calls'[t].ok = calls[t].ok
    <3>1. \A t \in Slot : /\ calls'[t].pc = IF t = s THEN "crt1" ELSE calls[t].pc
                          /\ Busy(t) => /\ calls'[t].node = calls[t].node
                                        /\ calls'[t].kind = calls[t].kind
                                        /\ calls'[t].ok = calls[t].ok
      BY <1>5, TruncateEffect
    <3> QED BY <3>1 DEF Busy
  <2> QED BY <1>4, <2>2, <2>3
<1>6. CASE ~TruncateCrt(s)
  <2>1. \A t \in Slot \ {s} : calls'[t] = calls[t]
    BY <1>6, StepShapes DEF Frame, Over
  <2>2. \A t \in Slot \ {s} : Busy(t)' => CallFound(t)'
    BY <1>4, <2>1 DEF Busy
  <2>3. ASSUME Busy(s)'
        PROVE  CallFound(s)'
    <3>1. ASSUME NEW pc, Moves(s, pc), pc \notin {"leave", "renew"}
          PROVE  CallFound(s)'
      BY <3>1 DEF Moves, CallFound
    <3>2. ASSUME NEW ok, Leaves(s, ok), ~ok \/ calls[s].kind = "renew"
          PROVE  CallFound(s)'
      BY <3>2 DEF Leaves, Frame, CallFound
    <3>3. ASSUME Panics(s)
          PROVE  CallFound(s)'
      BY <3>2, <3>3 DEF Panics
    <3>4. ASSUME NEW ok, Leaves(s, ok), checkCertfile(DomainOf(s)) \/ ~ok, UNCHANGED files
          PROVE  CallFound(s)'
      <4>1. DomainOf(s)' = DomainOf(s)  BY <1>3, <3>4 DEF DomainOf, Cert, Leaves, Frame
      <4> QED BY <3>4, <4>1 DEF Leaves, CallFound, checkCertfile, files
    <3>5. ASSUME Frame(s), calls'[s].pc = calls[s].pc, calls'[s].ok = calls[s].ok
          PROVE  CallFound(s)'
      BY <1>3, <1>4, <3>5 DEF Frame
    <3>6. ApplyDNSEnv(s) => CallFound(s)'
      <4>1. SUFFICES ASSUME ApplyDNSEnv(s) PROVE CallFound(s)'  OBVIOUS
      <4>2. calls[s].pc = "env" /\ (Leaves(s, FALSE) \/ (Frame(s) /\ calls'[s].pc = "env"))
        BY <4>1, ApplyEffect
      <4> QED BY <3>2, <4>2 DEF CallFound
    <3>7. FirstCheck(s) => CallFound(s)'
      BY <3>1, <3>4, FirstCheckEffect
    <3>8. GetPrivateKey(s) => CallFound(s)'
      BY <3>1, <3>3, GetPrivateKeyEffect
    <3>9. CreateKeyFile(s) \/ EncodeKey(s) => CallFound(s)'
      BY <3>1, CreateKeyFileEffect, EncodeKeyEffect
    <3>10. LoadAccount(s) => CallFound(s)'  BY <3>1, <3>3, LoadAccountEffect
    <3>11. SetupChallenges(s) => CallFound(s)'
      <4>1. SUFFICES ASSUME SetupChallenges(s) PROVE CallFound(s)'  OBVIOUS
      <4>2. CASE Moves(s, "renew") /\ calls[s].kind = "renew"
        BY <4>2 DEF Moves, Frame, CallFound
      <4> QED BY <3>1, <3>3, <4>1, <4>2, SetupChallengesEffect
    <3>12. Register(s) \/ SaveAccount(s) => CallFound(s)'
      BY <3>1, RegisterEffect, SaveAccountEffect
    <3>13. RenewForDomains(s) => CallFound(s)'
      <4>1. SUFFICES ASSUME RenewForDomains(s) PROVE CallFound(s)'  OBVIOUS
      <4>2. calls[s].kind = "renew"
        BY <1>3, <4>1, RenewForDomainsEffect DEF BuildInv, CallFound
      <4>3. Panics(s) \/ Moves(s, "obtain") \/ Leaves(s, TRUE)  BY <4>1, RenewForDomainsEffect
      <4> QED BY <3>1, <3>2, <3>3, <4>2, <4>3
    <3>14. Obtain(s) => CallFound(s)'  BY <3>1, <3>3, ObtainEffect
    <3>15. WriteCrt(s) \/ TruncateKey(s) \/ WriteKey(s) => CallFound(s)'
      BY <3>1, WriteCrtEffect, TruncateKeyEffect, WriteKeyEffect
    <3>16. LastCheck(s) => CallFound(s)'  BY <3>4, LastCheckEffect
    <3>17. Cleanup(s) => CallFound(s)'  BY <3>5, CleanupEffect
    <3>18. ~Return(s)  BY <2>3, ReturnEffect DEF Over, Busy
    <3>19. Fails(s) => CallFound(s)'  BY <3>3, FailsEffect
    <3> QED BY <1>6, <3>6, <3>7, <3>8, <3>9, <3>10, <3>11, <3>12, <3>13, <3>14, <3>15, <3>16,
               <3>17, <3>18, <3>19 DEF Step
  <2> QED BY <2>2, <2>3
<1> QED BY <1>5, <1>6

(* A build leaves an inbound that was built from its response, or the one   *)
(* there was.                                                               *)
LEMMA BuiltStep ==
  ASSUME Calls, PairInv, BuildInv, [Next]_vars, local' = local,
         NEW m \in Node, NEW r, NEW cert, NEW kind, Built(m, r, cert, kind),
         cert /\ Acme(local[m]) => checkCertfile(Cert(m).CertDomain)
  PROVE  /\ inbound' = [n \in Node |-> inbound'[n]] /\ resp' = [n \in Node |-> resp'[n]]
         /\ \A n \in Node : inbound'[n].ok => BuiltFrom(n)'
<1> DEFINE b == InboundBuilder(local[m], Info(m, r), cert)
<1>1. \A d \in Domain : checkCertfile(d) => checkCertfile(d)'  BY FilesStay
<1>2. /\ inbound = [n \in Node |-> inbound[n]] /\ resp = [n \in Node |-> resp[n]]
      /\ \A n \in Node : inbound[n].ok => BuiltFrom(n)
  BY DEF BuildInv
<1>3. \/ inbound' = [inbound EXCEPT ![m] = b] /\ resp' = [resp EXCEPT ![m] = r]
      \/ UNCHANGED <<inbound, resp>>
  BY DEF Built
<1>4. \A n \in Node : Acme(local[n]) => Cert(n).CertDomain \in Domain
  BY CertAssumption DEF Calls, Node, Cert
<1>5. ASSUME NEW n \in Node, NEW c, c /\ Acme(local[n]) => checkCertfile(Cert(n).CertDomain)
      PROVE  c /\ Acme(local[n]) => checkCertfile(Cert(n).CertDomain)'
  <2>1. Cert(n)' = Cert(n)  BY DEF Cert
  <2>2. SUFFICES ASSUME c, Acme(local[n]) PROVE checkCertfile(Cert(n).CertDomain)'
    OBVIOUS
  <2>3. PICK d \in Domain : d = Cert(n).CertDomain  BY <1>4, <2>2
  <2>4. checkCertfile(d)  BY <1>5, <2>2, <2>3
  <2>5. checkCertfile(d)'  BY <1>1, <2>4
  <2> QED BY <2>1, <2>3, <2>5 DEF checkCertfile
<1>6. \A n \in Node : \A x : Info(n, x)' = Info(n, x)  BY DEF Info
<1>7. ASSUME NEW n \in Node, inbound'[n].ok
      PROVE  BuiltFrom(n)'
  <2>1. CASE inbound'[n] = inbound[n] /\ resp'[n] = resp[n]
    <3>1. PICK c : /\ inbound[n] = InboundBuilder(local[n], Info(n, resp[n]), c)
                   /\ c /\ Acme(local[n]) => checkCertfile(Cert(n).CertDomain)
      BY <1>2, <1>7, <2>1 DEF BuiltFrom
    <3>2. c /\ Acme(local[n]) => checkCertfile(Cert(n).CertDomain)'  BY <1>5, <3>1
    <3> QED BY <2>1, <3>1, <3>2 DEF BuiltFrom, Info
  <2>2. CASE n = m /\ inbound'[n] = b /\ resp'[n] = r
    <3>1. cert /\ Acme(local[n]) => checkCertfile(Cert(n).CertDomain)'  BY <1>5, <2>2
    <3> QED BY <2>2, <3>1 DEF BuiltFrom, Info
  <2> HIDE DEF b
  <2> QED BY <1>2, <1>3, <2>1, <2>2
<1> HIDE DEF b
<1>8. inbound' = [n \in Node |-> inbound'[n]] /\ resp' = [n \in Node |-> resp'[n]]
  BY <1>2, <1>3
<1> QED BY <1>7, <1>8

(* The local configurations are fixed.                                      *)
LEMMA LocalStays ==
  ASSUME Calls, [Next]_vars
  PROVE  local' = local
BY MakerSteps, StepShapes DEF Next, vars, DayPasses, Crash

(* Every step keeps the inbounds and what the calls found.                  *)
LEMMA BuildNext ==
  ASSUME Calls, PairInv, BuildInv, [Next]_vars
  PROVE  BuildInv'
<1>1. local' = local  BY LocalStays
<1>2. \A d \in Domain : checkCertfile(d) => checkCertfile(d)'  BY FilesStay
<1> DEFINE NodesKept == /\ inbound' = [n \in Node |-> inbound'[n]]
                        /\ resp' = [n \in Node |-> resp'[n]]
                        /\ \A n \in Node : inbound'[n].ok => BuiltFrom(n)'
           CallsKept == \A s \in Slot : Busy(s)' => CallFound(s)'
<1>3. ASSUME UNCHANGED <<inbound, resp>>
      PROVE  NodesKept
  <2>1. ASSUME NEW n \in Node, inbound'[n].ok
        PROVE  BuiltFrom(n)'
    <3>1. PICK c : /\ inbound[n] = InboundBuilder(local[n], Info(n, resp[n]), c)
                   /\ c /\ Acme(local[n]) => checkCertfile(Cert(n).CertDomain)
      BY <1>3, <2>1 DEF BuildInv, BuiltFrom
    <3>2. c /\ Acme(local[n]) => checkCertfile(Cert(n).CertDomain)'
      <4>1. Acme(local[n]) => Cert(n).CertDomain \in Domain
        BY CertAssumption DEF Calls, Node, Cert
      <4>2. SUFFICES ASSUME c, Acme(local[n]) PROVE checkCertfile(Cert(n).CertDomain)'
        OBVIOUS
      <4>3. PICK d \in Domain : d = Cert(n).CertDomain  BY <4>1, <4>2
      <4>4. checkCertfile(d)'  BY <1>2, <3>1, <4>2, <4>3
      <4>5. Cert(n)' = Cert(n)  BY <1>1 DEF Cert
      <4> QED BY <4>3, <4>4, <4>5 DEF checkCertfile
    <3> QED BY <1>1, <1>3, <3>1, <3>2 DEF BuiltFrom, Info
  <2> QED BY <1>3, <2>1 DEF BuildInv
<1>4. ASSUME UNCHANGED calls
      PROVE  CallsKept
  <2>1. SUFFICES ASSUME NEW s \in Slot, Busy(s)' PROVE CallFound(s)'  OBVIOUS
  <2>2. CallFound(s) /\ DomainOf(s) \in Domain /\ Busy(s)
    BY <1>4, <2>1, CallSite DEF BuildInv, Busy
  <2>3. PICK d \in Domain : d = DomainOf(s)  BY <2>2
  <2>4. DomainOf(s)' = d  BY <1>1, <1>4, <2>3 DEF DomainOf, Cert
  <2>5. checkCertfile(d) => checkCertfile(d)'  BY <1>2
  <2>6. checkCertfile(DomainOf(s)) => checkCertfile(DomainOf(s))'
    BY <2>3, <2>4, <2>5 DEF checkCertfile
  <2> QED BY <1>4, <2>2, <2>6 DEF CallFound
<1>5. CASE UNCHANGED vars  BY <1>3, <1>4, <1>5 DEF vars, BuildInv
<1>6. CASE DayPasses
  <2>1. UNCHANGED <<inbound, resp, calls>>  BY <1>6 DEF DayPasses, nodes
  <2>2. NodesKept /\ CallsKept  BY <1>3, <1>4, <2>1
  <2> QED BY <2>2 DEF BuildInv
<1>7. CASE Crash
  <2>1. /\ resp' = [n \in Node |-> Fail] /\ inbound' = resp' /\ calls' = [s \in Slot |-> Idle]
    BY <1>7 DEF Crash
  <2>2. \A n \in Node : ~inbound'[n].ok  BY <2>1 DEF Fail
  <2>3. \A s \in Slot : ~Busy(s)'  BY <2>1 DEF Busy, Idle
  <2> QED BY <2>1, <2>2, <2>3 DEF BuildInv
<1>8. CASE Start \/ \E n \in Node : Rebuild(n) \/ Tick(n) \/ TickRebuilt(n)
  <2>1. CASE \E n \in Node, kind \in {"start", "rebuild"} : \E r : BuiltBare(n, kind, r)
    <3>0. PICK n \in Node, kind \in {"start", "rebuild"} : \E r : BuiltBare(n, kind, r)  BY <2>1
    <3>1. PICK r : BuiltBare(n, kind, r)  BY <3>0
    <3>2. Built(n, r, FALSE, kind) /\ UNCHANGED calls  BY <3>1 DEF BuiltBare
    <3>3. NodesKept  BY <1>1, <3>2, BuiltStep
    <3> QED BY <1>4, <3>2, <3>3 DEF BuildInv
  <2>2. CASE UNCHANGED <<inbound, resp, calls>>  BY <1>3, <1>4, <2>2 DEF BuildInv
  <2>3. ASSUME NEW n \in Node, NEW kind, NEW r, Made(n, kind, r), UNCHANGED <<inbound, resp>>
        PROVE  BuildInv'
    <3>1. PICK s \in Slot : /\ ~Busy(s) /\ \A t \in Slot : t # s => calls'[t] = calls[t]
                            /\ calls'[s] = NewCall(n, kind, r)
      BY <2>3 DEF Made
    <3>2. calls'[s].pc # "renew" /\ ~calls'[s].ok  BY <3>1 DEF NewCall
    <3>3. ASSUME NEW t \in Slot, Busy(t)'
          PROVE  CallFound(t)'
      <4>1. CASE t = s  BY <3>2, <4>1 DEF CallFound
      <4>2. CASE t # s
        <5>1. calls'[t] = calls[t] /\ Busy(t)  BY <3>1, <3>3, <4>2 DEF Busy
        <5>2. CallFound(t) /\ DomainOf(t) \in Domain  BY <5>1, CallSite DEF BuildInv
        <5>3. PICK d \in Domain : d = DomainOf(t)  BY <5>2
        <5>4. DomainOf(t)' = d  BY <1>1, <5>1, <5>3 DEF DomainOf, Cert
        <5>5. checkCertfile(d) => checkCertfile(d)'  BY <1>2
        <5>6. checkCertfile(DomainOf(t)) => checkCertfile(DomainOf(t))'
          BY <5>3, <5>4, <5>5 DEF checkCertfile
        <5> QED BY <5>1, <5>2, <5>6 DEF CallFound
      <4> QED BY <4>1, <4>2
    <3> QED BY <1>3, <2>3, <3>3 DEF BuildInv
  <2>4. \/ \E n \in Node, kind \in {"start", "rebuild", "renew"} : \E r :
             Made(n, kind, r) /\ UNCHANGED <<inbound, resp>>
        \/ \E n \in Node, kind \in {"start", "rebuild"} : \E r : BuiltBare(n, kind, r)
        \/ UNCHANGED <<inbound, resp, calls>>
    BY <1>8, MakerSteps
  <2> QED BY <2>1, <2>2, <2>3, <2>4
<1>9. ASSUME NEW s \in Slot, Step(s)
      PROVE  BuildInv'
  <2>1. CallsKept  BY <1>9, FoundStep
  <2>2. CASE UNCHANGED nodes
    <3>1. UNCHANGED <<inbound, resp>>  BY <2>2 DEF nodes
    <3> QED BY <1>3, <2>1, <3>1 DEF BuildInv
  <2>3. CASE Return(s)
    <3> DEFINE c == calls[s]
    <3>1. /\ Busy(s) /\ c.pc = "leave"
          /\ IF c.kind = "renew" THEN UNCHANGED <<next, resp, inbound>>
             ELSE Built(c.node, c.resp, c.ok, c.kind)
      BY <2>3, ReturnEffect
    <3>2. CASE c.kind = "renew"  BY <1>3, <2>1, <3>1, <3>2 DEF BuildInv
    <3>3. CASE c.kind # "renew"
      <4>1. c.node \in Node  BY <3>1 DEF Calls
      <4>2. c.ok => checkCertfile(Cert(c.node).CertDomain)
        BY <3>1, <3>3 DEF BuildInv, CallFound, DomainOf
      <4>3. Built(c.node, c.resp, c.ok, c.kind)  BY <3>1, <3>3
      <4> HIDE DEF c
      <4>4. NodesKept  BY <1>1, <4>1, <4>2, <4>3, BuiltStep
      <4> QED BY <2>1, <4>4 DEF BuildInv
    <3> QED BY <3>2, <3>3
  <2> QED BY <1>9, <2>2, <2>3, StepShapes
<1> QED BY <1>5, <1>6, <1>7, <1>8, <1>9 DEF Next

-----------------------------------------------------------------------------
(* The invariant of a process that obtains and renews certificates.         *)
CertInv == Calls /\ Starting /\ AccountInv /\ PairInv /\ BuildInv

(* The invariant of accounts, pairs and builds.                             *)
LEMMA InitCertInv ==
  ASSUME Init
  PROVE  CertInv
<1>1. \A s \in Slot : ~Busy(s)  BY DEF Init, Busy, Idle
<1>2. Len(Order) \in Nat  BY CertAssumption
<1>3. Calls /\ Starting
  <2> DEFINE m == [d \in Domain |-> RenewDays + 1]
  <2>1. /\ hist = [crossed |-> FALSE, raced |-> {}, spoiled |-> {}, lapse |-> m]
        /\ local \in Locals /\ next = 1 /\ calls = [s \in Slot |-> Idle]
    BY DEF Init
  <2> HIDE DEF m
  <2>2. hist = [f \in {"crossed", "raced", "spoiled", "lapse"} |-> hist[f]]  BY <2>1
  <2>3. calls = [s \in Slot |-> calls[s]] /\ next \in 1 .. (Len(Order) + 1)  BY <1>2, <2>1
  <2>4. Calls  BY <1>1, <2>1, <2>2, <2>3 DEF Calls
  <2> QED BY <1>1, <2>4 DEF Starting
<1>4. AccountInv
  <2>1. AccountTypes  BY <1>1 DEF Init, AccountTypes, Absent, Torn
  <2>2. \A e \in Email : KeyHeld(e)
    BY <1>1 DEF Init, KeyHeld, Uses, Absent, Torn
  <2> QED BY <2>1, <2>2 DEF AccountInv
<1>5. PairInv
  <2>1. PairTypes  BY <1>1 DEF Init, PairTypes, Absent, Torn
  <2>2. \A d \in Domain : DomainHeld(d)
    BY <1>1 DEF Init, DomainHeld, Saves, checkCertfile, Absent
  <2> QED BY <2>1, <2>2 DEF PairInv
<1>6. BuildInv
  BY <1>1 DEF Init, BuildInv, Fail
<1> QED BY <1>3, <1>4, <1>5, <1>6 DEF CertInv

LEMMA NextCertInv ==
  ASSUME CertInv, [Next]_vars
  PROVE  CertInv'
BY NextCalls, AccountNext, PairNext, BuildNext DEF CertInv

(* What a node serves with a certificate of its own is the pair of its      *)
(* domain, and both files are there.                                        *)
LEMMA ServedFiles ==
  ASSUME CertInv, NEW n \in Node, NEW d \in Domain, Serves(n, d)
  PROVE  /\ Acme(local[n]) /\ d = Cert(n).CertDomain /\ checkCertfile(d)
<1>1. PICK cert : /\ inbound[n] = InboundBuilder(local[n], Info(n, resp[n]), cert)
                  /\ cert /\ Acme(local[n]) => checkCertfile(Cert(n).CertDomain)
  BY DEF CertInv, BuildInv, BuiltFrom, Serves
<1>2. /\ inbound[n].ok /\ inbound[n].stream.Security = "tls"
      /\ inbound[n].stream.settings.pair = d
  BY DEF Serves
<1>3. d # "file"  BY CertAssumption
<1>4. IF Acme(local[n]) THEN cert /\ d = local[n].CertConfig.CertDomain ELSE d = "file"
  <2>1. PICK b : b = InboundBuilder(local[n], Info(n, resp[n]), cert)  OBVIOUS
  <2>2. b.ok /\ b.stream.Security = "tls" /\ b.stream.settings.pair = d  BY <1>1, <1>2, <2>1
  <2> QED BY <2>1, <2>2, BuilderPair
<1> QED BY <1>1, <1>3, <1>4 DEF Cert

(* The invariant says what KeysMatch says.                                  *)
LEMMA CertSafe ==
  ASSUME CertInv
  PROVE  KeysMatch
<1>1. ASSUME NEW n \in Node, NEW d \in Domain, Serves(n, d), Savers(d) = {}, d \notin hist.spoiled
      PROVE  crt[d] = key[d] /\ crt[d] > Torn
  <2>1. checkCertfile(d)  BY <1>1, ServedFiles
  <2>2. \A s \in Slot : ~Saves(s, d)  BY <1>1, SaversSaves
  <2> QED BY <1>1, <2>1, <2>2 DEF CertInv, PairInv, DomainHeld, Whole
<1>2. AccountMatchesKey
  BY DEF CertInv, AccountInv, KeyHeld, AccountMatchesKey
<1> QED BY <1>1, <1>2 DEF KeysMatch, ServedPairMatches

(* A certificate a node serves belongs to the private key beside it, and an *)
(* account to the account key: checkCertfile (lego.go:302), saves of the    *)
(* resource, GetPrivateKey (accounts_storage.go:157) and register.          *)
THEOREM CertificatesMatch == Spec => []KeysMatch
<1>1. Init => CertInv  BY InitCertInv
<1>2. CertInv /\ [Next]_vars => CertInv'  BY NextCertInv
<1>3. CertInv => KeysMatch  BY CertSafe
<1> QED BY <1>1, <1>2, <1>3, PTL DEF Spec

(* An inbound changes only from one build to another of the same node.      *)
LEMMA LocalStep ==
  ASSUME CertInv, CertInv', [Next]_vars, NEW n \in Node, FullyLocal(local[n]),
         inbound[n].ok, inbound'[n].ok
  PROVE  SamePort(inbound'[n]) = SamePort(inbound[n])
<1>1. local' = local  BY LocalStays DEF CertInv
<1>2. \E i, c : inbound[n] = InboundBuilder(local[n], i, c)
  BY DEF CertInv, BuildInv, BuiltFrom
<1>3. \E i, c : inbound'[n] = InboundBuilder(local[n], i, c)
  BY <1>1 DEF CertInv, BuildInv, BuiltFrom
<1> QED BY <1>2, <1>3, LocalBuilder

(* A node whose local configuration is complete serves what it served       *)
(* before, whatever the panel answers (inboundbuilder.go:123).              *)
THEOREM LocalConfigDrives == Spec => LocalDrives
<1>1. Init => CertInv  BY InitCertInv
<1>2. CertInv /\ [Next]_vars => CertInv'  BY NextCertInv
<1>3. CertInv /\ CertInv' /\ [Next]_vars
        => [\A n \in Node : FullyLocal(local[n]) /\ inbound[n].ok /\ inbound'[n].ok
               => SamePort(inbound'[n]) = SamePort(inbound[n])]_vars
  BY LocalStep
<1> QED BY <1>1, <1>2, <1>3, PTL DEF Spec, LocalDrives

-----------------------------------------------------------------------------
(* Renewals.  One that went well has found more than RenewDays left, or has *)
(* put Lifetime there.  From then on a day takes one of the days and adds   *)
(* one to the lapse, and together they stay above RenewDays.                *)
CallDays(s) ==
    calls[s].pc \in {"key0", "key1", "recheck"}
    \/ (calls[s].pc = "leave" /\ calls[s].ok /\ calls[s].kind = "renew")
      => days[DomainOf(s)] > RenewDays

DayTypes == days = [d \in Domain |-> days[d]] /\ \A d \in Domain : days[d] \in 0..Lifetime

LapseTypes ==
    /\ hist.lapse = [d \in Domain |-> hist.lapse[d]]
    /\ \A d \in Domain : hist.lapse[d] \in 0..(RenewDays + 1)

DomainDays(d) == days[d] + hist.lapse[d] > RenewDays

RenewInv ==
    /\ DayTypes /\ LapseTypes /\ due \subseteq Node
    /\ \A s \in Slot : Busy(s) => CallDays(s)
    /\ \A d \in Domain : DomainDays(d)

(* Within a day a certificate only gets newer.                              *)
LEMMA DaysStep ==
  ASSUME Calls, RenewInv, NEW s \in Slot, Step(s)
  PROVE  DayTypes' /\ \A d \in Domain : days'[d] >= days[d]
<1>1. CASE days' = days
  BY <1>1 DEF RenewInv, DayTypes
<1>2. CASE WriteCrt(s)
  <2>1. days' = [days EXCEPT ![DomainOf(s)] = Lifetime] /\ Lifetime \in Nat
    BY <1>2, WriteCrtEffect, CertAssumption
  <2> QED BY <2>1 DEF RenewInv, DayTypes
<1> QED BY <1>1, <1>2 DEF Step, files, ApplyDNSEnv, FirstCheck, GetPrivateKey, CreateKeyFile,
           EncodeKey, LoadAccount, SetupChallenges, Register, SaveAccount, RenewForDomains, Obtain,
           TruncateCrt, TruncateKey, WriteKey, LastCheck, Cleanup, Return, Fails

(* What the steps of a call know of the days left.                          *)
LEMMA CallDaysStep ==
  ASSUME Calls, RenewInv, NEW s \in Slot, Step(s)
  PROVE  \A t \in Slot : Busy(t)' => CallDays(t)'
<1>1. local' = local /\ Busy(s)  BY StepShapes
<1>2. DayTypes' /\ \A d \in Domain : days'[d] >= days[d]  BY DaysStep
<1>3. \A d \in Domain : days[d] \in Nat /\ days'[d] \in Nat
  BY <1>2, CertAssumption DEF RenewInv, DayTypes
<1>4. RenewDays \in Nat /\ Lifetime \in Nat /\ Lifetime > RenewDays  BY CertAssumption
<1>5. \A t \in Slot : calls'[t].node = calls[t].node => DomainOf(t)' = DomainOf(t)
  BY <1>1 DEF DomainOf, Cert
<1>6. ASSUME NEW t \in Slot, Busy(t), calls'[t].node = calls[t].node,
             calls'[t].kind = calls[t].kind, calls'[t].ok = calls[t].ok,
             calls'[t].pc = calls[t].pc
               \/ (/\ calls[t].pc \in {"key0", "key1"}
                   /\ calls'[t].pc \in {"key1", "recheck"})
      PROVE  CallDays(t)'
  <2>1. CallDays(t) /\ DomainOf(t) \in Domain  BY <1>6, CallSite DEF RenewInv
  <2>2. DomainOf(t)' = DomainOf(t)  BY <1>5, <1>6
  <2>3. days'[DomainOf(t)] >= days[DomainOf(t)]  BY <1>2, <2>1
  <2> QED BY <1>3, <1>4, <1>6, <2>1, <2>2, <2>3 DEF CallDays
<1>7. CASE TruncateCrt(s)
  <2>1. calls'[s].pc = "crt1"  BY <1>7, TruncateEffect
  <2>2. CallDays(s)'  BY <2>1 DEF CallDays
  <2>3. \A t \in Slot \ {s} : Busy(t)' => /\ Busy(t) /\ calls'[t].node = calls[t].node
                                          /\ calls'[t].kind = calls[t].kind
                                          /\ calls'[t].pc = calls[t].pc /\ calls'[t].ok = calls[t].ok
    <3>1. \A t \in Slot : /\ calls'[t].pc = IF t = s THEN "crt1" ELSE calls[t].pc
                          /\ Busy(t) => /\ calls'[t].node = calls[t].node
                                        /\ calls'[t].kind = calls[t].kind
                                        /\ calls'[t].ok = calls[t].ok
      BY <1>7, TruncateEffect
    <3> QED BY <3>1 DEF Busy
  <2> QED BY <1>6, <2>2, <2>3
<1>8. CASE ~TruncateCrt(s)
  <2>1. \A t \in Slot \ {s} : calls'[t] = calls[t]
    BY <1>8, StepShapes DEF Frame, Over
  <2>2. \A t \in Slot \ {s} : Busy(t)' => CallDays(t)'
    BY <1>6, <2>1 DEF Busy
  <2>3. ASSUME Busy(s)'
        PROVE  CallDays(s)'
    <3>1. ASSUME NEW pc, Moves(s, pc), pc \notin {"key0", "key1", "recheck", "leave"}
          PROVE  CallDays(s)'
      BY <3>1 DEF Moves, CallDays
    <3>2. ASSUME NEW ok, Leaves(s, ok), ~ok \/ calls[s].kind # "renew"
          PROVE  CallDays(s)'
      BY <3>2 DEF Leaves, Frame, CallDays
    <3>3. ASSUME Panics(s)
          PROVE  CallDays(s)'
      BY <3>2, <3>3 DEF Panics
    <3>4. ASSUME NEW ok, Leaves(s, ok), days[DomainOf(s)] > RenewDays
          PROVE  CallDays(s)'
      <4>1. DomainOf(s)' = DomainOf(s) /\ DomainOf(s) \in Domain
        BY <1>1, <1>5, <3>4, CallSite DEF Leaves, Frame
      <4>2. days'[DomainOf(s)] > RenewDays  BY <1>2, <1>3, <1>4, <3>4, <4>1
      <4> QED BY <4>1, <4>2 DEF CallDays
    <3>5. ASSUME Frame(s), calls'[s].ok = calls[s].ok, calls'[s].pc = calls[s].pc
          PROVE  CallDays(s)'
      BY <1>1, <1>6, <3>5 DEF Frame
    <3>6. ApplyDNSEnv(s) => CallDays(s)'
      <4>1. SUFFICES ASSUME ApplyDNSEnv(s) PROVE CallDays(s)'  OBVIOUS
      <4>2. Leaves(s, FALSE) \/ (Frame(s) /\ calls'[s].pc = "env")
        BY <4>1, ApplyEffect
      <4> QED BY <3>2, <4>2 DEF CallDays
    <3>7. FirstCheck(s) => CallDays(s)'  BY <3>1, <3>2, FirstCheckEffect
    <3>8. GetPrivateKey(s) => CallDays(s)'  BY <3>1, <3>3, GetPrivateKeyEffect
    <3>9. CreateKeyFile(s) \/ EncodeKey(s) => CallDays(s)'
      BY <3>1, CreateKeyFileEffect, EncodeKeyEffect
    <3>10. LoadAccount(s) => CallDays(s)'  BY <3>1, <3>3, LoadAccountEffect
    <3>11. SetupChallenges(s) => CallDays(s)'  BY <3>1, <3>3, SetupChallengesEffect
    <3>12. Register(s) \/ SaveAccount(s) => CallDays(s)'
      BY <3>1, RegisterEffect, SaveAccountEffect
    <3>13. RenewForDomains(s) => CallDays(s)'
      <4>1. SUFFICES ASSUME RenewForDomains(s) PROVE CallDays(s)'  OBVIOUS
      <4>2. CASE ~needRenewal(DomainOf(s)) /\ Leaves(s, TRUE)
        BY <3>4, <4>2 DEF needRenewal
      <4> QED BY <3>1, <3>3, <4>1, <4>2, RenewForDomainsEffect
    <3>14. Obtain(s) => CallDays(s)'  BY <3>1, <3>3, ObtainEffect
    <3>15. WriteCrt(s) => CallDays(s)'
      <4>1. SUFFICES ASSUME WriteCrt(s) PROVE CallDays(s)'  OBVIOUS
      <4>2. /\ Frame(s) /\ days' = [days EXCEPT ![DomainOf(s)] = Lifetime]
        BY <4>1, WriteCrtEffect DEF Moves
      <4>3. DomainOf(s)' = DomainOf(s) /\ DomainOf(s) \in Domain
        BY <1>1, <1>5, <4>2, CallSite DEF Frame
      <4>4. days'[DomainOf(s)] = Lifetime  BY <4>2, <4>3 DEF RenewInv, DayTypes
      <4> QED BY <1>4, <4>3, <4>4 DEF CallDays
    <3>16. TruncateKey(s) \/ WriteKey(s) => CallDays(s)'
      <4>1. SUFFICES ASSUME TruncateKey(s) \/ WriteKey(s) PROVE CallDays(s)'  OBVIOUS
      <4>2. /\ Frame(s) /\ calls'[s].ok = calls[s].ok
            /\ calls[s].pc \in {"key0", "key1"} /\ calls'[s].pc \in {"key1", "recheck"}
        BY <4>1, TruncateKeyEffect, WriteKeyEffect DEF Moves
      <4> QED BY <1>1, <1>6, <4>2 DEF Frame
    <3>17. LastCheck(s) => CallDays(s)'
      <4>1. SUFFICES ASSUME LastCheck(s) PROVE CallDays(s)'  OBVIOUS
      <4>2. calls[s].pc = "recheck" /\ \E ok : Leaves(s, ok)  BY <4>1, LastCheckEffect
      <4>3. days[DomainOf(s)] > RenewDays  BY <1>1, <4>2 DEF RenewInv, CallDays
      <4> QED BY <3>4, <4>2, <4>3
    <3>18. Cleanup(s) => CallDays(s)'  BY <3>5, CleanupEffect
    <3>19. ~Return(s)  BY <2>3, ReturnEffect DEF Over, Busy
    <3>20. Fails(s) => CallDays(s)'  BY <3>3, FailsEffect
    <3> QED BY <1>8, <3>6, <3>7, <3>8, <3>9, <3>10, <3>11, <3>12, <3>13, <3>14, <3>15, <3>16,
               <3>17, <3>18, <3>19, <3>20 DEF Step
  <2> QED BY <2>2, <2>3
<1> QED BY <1>7, <1>8

(* Only the return of a renewal settles its domain.                         *)
LEMMA LapseStep ==
  ASSUME Calls, NEW s \in Slot, Step(s), ~Return(s)
  PROVE  hist'.lapse = hist.lapse
<1>1. ASSUME NEW c, NEW r, NEW sp, HistTo(c, r, sp, hist.lapse)
      PROVE  hist'.lapse = hist.lapse
  BY <1>1 DEF HistTo
<1>2. ApplyDNSEnv(s) => hist'.lapse = hist.lapse
  <2>1. SUFFICES ASSUME ApplyDNSEnv(s) PROVE hist'.lapse = hist.lapse  OBVIOUS
  <2>2. hist' = hist \/ \E c : HistTo(c, hist.raced, hist.spoiled, hist.lapse)
    BY <2>1, ApplyEffect
  <2> QED BY <1>1, <2>2
<1>3. Panics(s) => hist'.lapse = hist.lapse  BY <1>1 DEF Panics
<1>4. GetPrivateKey(s) => hist'.lapse = hist.lapse
  <2>1. SUFFICES ASSUME GetPrivateKey(s) PROVE hist'.lapse = hist.lapse  OBVIOUS
  <2> QED BY <1>1, <1>3, <2>1, GetPrivateKeyEffect
<1>5. TruncateCrt(s) => hist'.lapse = hist.lapse  BY TruncateHist DEF HistTo
<1>6. WriteKey(s) => hist'.lapse = hist.lapse  BY WriteKeyEffect DEF HistTo
<1>7. Fails(s) => hist'.lapse = hist.lapse
  <2>1. SUFFICES ASSUME Fails(s) PROVE hist'.lapse = hist.lapse  OBVIOUS
  <2> QED BY <1>3, <2>1, FailsEffect
<1>8. FirstCheck(s) \/ CreateKeyFile(s) \/ EncodeKey(s) \/ Register(s) \/ SaveAccount(s)
      \/ WriteCrt(s) \/ TruncateKey(s) \/ LastCheck(s) \/ Cleanup(s) => hist' = hist
  BY DEF FirstCheck, CreateKeyFile, EncodeKey, Register, SaveAccount, WriteCrt, TruncateKey,
         LastCheck, Cleanup
<1>9. LoadAccount(s) \/ SetupChallenges(s) => hist'.lapse = hist.lapse
  <2>1. SUFFICES ASSUME LoadAccount(s) \/ SetupChallenges(s)
                 PROVE  hist'.lapse = hist.lapse
    OBVIOUS
  <2>2. LoadAccount(s) => hist' = hist \/ Panics(s)  BY LoadAccountEffect
  <2>3. SetupChallenges(s) => hist' = hist \/ Panics(s)  BY SetupChallengesEffect
  <2> QED BY <1>3, <2>1, <2>2, <2>3
<1>10. RenewForDomains(s) \/ Obtain(s) => hist'.lapse = hist.lapse
  <2>1. SUFFICES ASSUME RenewForDomains(s) \/ Obtain(s)
                 PROVE  hist'.lapse = hist.lapse
    OBVIOUS
  <2>2. RenewForDomains(s) => hist' = hist \/ Panics(s)  BY RenewForDomainsEffect
  <2>3. Obtain(s) => hist' = hist \/ Panics(s)  BY ObtainEffect
  <2> QED BY <1>3, <2>1, <2>2, <2>3
<1> QED BY <1>2, <1>4, <1>5, <1>6, <1>7, <1>8, <1>9, <1>10 DEF Step

(* A domain that gets no older and has no renewal behind it that it had not *)
(* before.                                                                  *)
LEMMA DomainQuiet ==
  ASSUME RenewInv, DayTypes', NEW d \in Domain, hist'.lapse = hist.lapse, days'[d] >= days[d]
  PROVE  DomainDays(d)'
<1>1. DomainDays(d)  BY DEF RenewInv
<1>2. /\ days[d] \in 0..Lifetime /\ days'[d] \in 0..Lifetime
      /\ hist.lapse[d] \in 0..(RenewDays + 1)
      /\ RenewDays \in Nat /\ Lifetime \in Nat
  BY CertAssumption DEF RenewInv, DayTypes, LapseTypes
<1>3. days[d] + hist.lapse[d] > RenewDays  BY <1>1 DEF DomainDays
<1>4. days'[d] + hist.lapse[d] > RenewDays  BY <1>2, <1>3
<1> QED BY <1>4 DEF DomainDays

(* The return of a renewal that went well, and of any other call.           *)
LEMMA RenewReturn ==
  ASSUME Calls, RenewInv, NEW s \in Slot, Return(s), DayTypes'
  PROVE  LapseTypes' /\ \A d \in Domain : DomainDays(d)'
<1> DEFINE c == calls[s]
           m == IF c.kind = "renew" /\ c.ok THEN [hist.lapse EXCEPT ![DomainOf(s)] = 0]
                ELSE hist.lapse
<1>1. Busy(s) /\ c.pc = "leave" /\ days' = days  BY ReturnEffect DEF files
<1>2. hist'.lapse = m
  <2>1. PICK cr : HistTo(cr, hist.raced, hist.spoiled, m)  BY ReturnEffect
  <2> HIDE DEF m
  <2> QED BY <2>1 DEF HistTo
<1>3. RenewDays \in Nat /\ Lifetime \in Nat /\ LapseTypes /\ DayTypes
  BY CertAssumption DEF RenewInv
<1>4. CASE c.kind = "renew" /\ c.ok
  <2>1. hist'.lapse = [hist.lapse EXCEPT ![DomainOf(s)] = 0]  BY <1>2, <1>4
  <2>2. LapseTypes'  BY <1>3, <2>1 DEF LapseTypes
  <2>3. ASSUME NEW d \in Domain
        PROVE  DomainDays(d)'
    <3>1. CASE d = DomainOf(s)
      <4>1. days[d] > RenewDays  BY <1>1, <1>4, <3>1 DEF RenewInv, CallDays
      <4>2. hist'.lapse[d] = 0  BY <1>3, <2>1, <3>1 DEF LapseTypes
      <4>3. days[d] \in 0..Lifetime  BY <1>3 DEF DayTypes
      <4>4. days'[d] + hist'.lapse[d] > RenewDays  BY <1>1, <1>3, <4>1, <4>2, <4>3
      <4> QED BY <4>4 DEF DomainDays
    <3>2. CASE d # DomainOf(s)
      <4>1. hist'.lapse[d] = hist.lapse[d]  BY <1>3, <2>1, <3>2 DEF LapseTypes
      <4>2. DomainDays(d)  BY DEF RenewInv
      <4> QED BY <1>1, <4>1, <4>2 DEF DomainDays
    <3> QED BY <3>1, <3>2
  <2> QED BY <2>2, <2>3
<1>5. CASE ~(c.kind = "renew" /\ c.ok)
  <2>1. hist'.lapse = hist.lapse  BY <1>2, <1>5
  <2> QED BY <1>1, <1>3, <2>1 DEF LapseTypes, DomainDays, RenewInv
<1> QED BY <1>4, <1>5

(* Only a node that has been rebuilt is in the middle of its tick.          *)
LEMMA DueNext ==
  ASSUME Calls, due \subseteq Node, [Next]_vars
  PROVE  due' \subseteq Node
<1>1. CASE UNCHANGED vars  BY <1>1 DEF vars
<1>2. CASE DayPasses  BY <1>2 DEF DayPasses, nodes
<1>3. CASE Crash  BY <1>3 DEF Crash
<1>4. ASSUME NEW n \in Node, NEW r, NEW kind, Build(n, r, kind)
      PROVE  due' \subseteq Node
  BY <1>4 DEF Build, Built
<1>5. CASE Start
  <2>1. /\ next <= Len(Order)
        /\ due' = due \/ \E r : Build(Order[next], r, "start")
    BY <1>5 DEF Start
  <2>2. Order[next] \in Node  BY <2>1, CertAssumption DEF Calls, Node, Range
  <2> HIDE DEF Build
  <2> QED BY <1>4, <2>1, <2>2
<1>6. ASSUME NEW n \in Node, Rebuild(n) \/ Tick(n) \/ TickRebuilt(n)
      PROVE  due' \subseteq Node
  <2>1. Rebuild(n) => \E r : Build(n, r, "rebuild")  BY DEF Rebuild
  <2>2. Rebuild(n) => due' \subseteq Node
    <3> HIDE DEF Build
    <3> QED BY <1>4, <2>1
  <2>3. Tick(n) \/ TickRebuilt(n) => due' \subseteq Node  BY DEF Tick, TickRebuilt
  <2> QED BY <1>6, <2>2, <2>3
<1>7. ASSUME NEW s \in Slot, Step(s)
      PROVE  due' \subseteq Node
  <2>1. CASE UNCHANGED nodes  BY <2>1 DEF nodes
  <2>2. CASE Return(s)
    <3>1. /\ Busy(s)
          /\ \/ UNCHANGED due
             \/ Built(calls[s].node, calls[s].resp, calls[s].ok, calls[s].kind)
      BY <2>2, ReturnEffect
    <3>2. calls[s].node \in Node  BY <3>1 DEF Calls
    <3>3. due' = due \/ due' = due \cup {calls[s].node}  BY <3>1 DEF Built
    <3> QED BY <3>2, <3>3
  <2> QED BY <1>7, <2>1, <2>2, StepShapes
<1> QED BY <1>1, <1>2, <1>3, <1>5, <1>6, <1>7 DEF Next

(* A day takes what it adds to the lapse.                                   *)
LEMMA RenewDay ==
  ASSUME Calls, RenewInv, DayPasses
  PROVE  DayTypes' /\ LapseTypes' /\ \A d \in Domain : DomainDays(d)'
<1>1. /\ days' = [d \in Domain |-> IF days[d] = 0 THEN 0 ELSE days[d] - 1]
      /\ hist'.lapse = DayLapse
  BY DayHist DEF DayPasses
<1>2. ASSUME NEW d \in Domain
      PROVE  /\ days'[d] \in 0..Lifetime /\ hist'.lapse[d] \in 0..(RenewDays + 1)
             /\ days'[d] + hist'.lapse[d] > RenewDays
  <2> DEFINE x == days[d]
             y == hist.lapse[d]
  <2>1. /\ days'[d] = IF x = 0 THEN 0 ELSE x - 1
        /\ hist'.lapse[d] = IF y > RenewDays THEN y ELSE y + 1
    BY <1>1 DEF DayLapse
  <2>2. x \in 0..Lifetime /\ y \in 0..(RenewDays + 1) /\ x + y > RenewDays
    BY DEF RenewInv, DayTypes, LapseTypes, DomainDays
  <2>3. RenewDays \in Nat /\ Lifetime \in Nat  BY CertAssumption
  <2> HIDE DEF x, y
  <2> QED BY <2>1, <2>2, <2>3
<1>3. DayTypes'  BY <1>1, <1>2 DEF DayTypes
<1>4. LapseTypes'  BY <1>1, <1>2 DEF LapseTypes, DayLapse
<1> QED BY <1>2, <1>3, <1>4 DEF DomainDays

(* Every step keeps the days.                                               *)
LEMMA RenewNext ==
  ASSUME Calls, RenewInv, [Next]_vars
  PROVE  RenewInv'
<1>0. local' = local /\ due' \subseteq Node  BY LocalStays, DueNext DEF RenewInv
<1>1. \A d \in Domain : days[d] \in Nat  BY DEF RenewInv, DayTypes
<1>2. ASSUME days' = days, hist'.lapse = hist.lapse
      PROVE  DayTypes' /\ LapseTypes' /\ \A d \in Domain : DomainDays(d)'
  BY <1>2 DEF RenewInv, DayTypes, LapseTypes, DomainDays
<1>3. ASSUME days' = days, calls' = calls
      PROVE  \A s \in Slot : Busy(s)' => CallDays(s)'
  BY <1>0, <1>3 DEF RenewInv, Busy, CallDays, DomainOf, Cert
<1>4. CASE UNCHANGED vars
  <2>1. UNCHANGED <<calls, days, hist>>  BY <1>4 DEF vars
  <2> QED BY <1>0, <1>2, <1>3, <2>1 DEF RenewInv
<1>5. CASE DayPasses
  <2>1. \A s \in Slot : ~Busy(s)'  BY <1>5 DEF DayPasses, Busy
  <2> QED BY <1>0, <1>5, <2>1, RenewDay DEF RenewInv
<1>6. CASE Crash
  <2> DEFINE C == hist.spoiled \cup Cut({s \in Slot : Busy(s)})
  <2>1. /\ calls' = [s \in Slot |-> Idle] /\ days' = days
        /\ hist' = [hist EXCEPT !.crossed = FALSE, !.spoiled = C]
    BY <1>6 DEF Crash, files
  <2> HIDE DEF C
  <2>2. hist'.lapse = hist.lapse  BY <2>1 DEF Calls
  <2>3. \A s \in Slot : ~Busy(s)'  BY <2>1 DEF Busy, Idle
  <2> QED BY <1>0, <1>2, <2>1, <2>2, <2>3 DEF RenewInv
<1>7. CASE Start \/ \E n \in Node : Rebuild(n) \/ Tick(n) \/ TickRebuilt(n)
  <2>1. days' = days /\ hist' = hist  BY <1>7, MakerSteps DEF files
  <2>2. calls' = calls \/ \E n, kind, r : Made(n, kind, r)
    <3> HIDE DEF Made, Building, Acme, Renews
    <3> QED BY <1>7, MakerSteps DEF BuiltBare
  <2>3. ASSUME NEW m, NEW kind, NEW r, Made(m, kind, r)
        PROVE  \A t \in Slot : Busy(t)' => CallDays(t)'
    <3>1. PICK s \in Slot : /\ ~Busy(s) /\ \A t \in Slot : t # s => calls'[t] = calls[t]
                            /\ calls'[s] = NewCall(m, kind, r)
      BY <2>3 DEF Made
    <3>2. calls'[s].pc \in {"env", "leave"} /\ ~calls'[s].ok  BY <3>1 DEF NewCall
    <3>3. ASSUME NEW t \in Slot, Busy(t)'
          PROVE  CallDays(t)'
      <4>1. CASE t = s  BY <3>2, <4>1 DEF CallDays
      <4>2. CASE t # s
        <5>1. calls'[t] = calls[t] /\ Busy(t)  BY <3>1, <3>3, <4>2 DEF Busy
        <5>2. CallDays(t) /\ DomainOf(t)' = DomainOf(t)
          BY <1>0, <5>1 DEF RenewInv, DomainOf, Cert
        <5> QED BY <2>1, <5>1, <5>2 DEF CallDays
      <4> QED BY <4>1, <4>2
    <3> QED BY <3>3
  <2> QED BY <1>0, <1>2, <1>3, <2>1, <2>2, <2>3 DEF RenewInv
<1>8. ASSUME NEW s \in Slot, Step(s)
      PROVE  RenewInv'
  <2>1. DayTypes' /\ \A d \in Domain : days'[d] >= days[d]  BY <1>8, DaysStep
  <2>2. \A t \in Slot : Busy(t)' => CallDays(t)'  BY <1>8, CallDaysStep
  <2>3. CASE Return(s)
    <3>1. LapseTypes' /\ \A d \in Domain : DomainDays(d)'  BY <2>1, <2>3, RenewReturn
    <3> QED BY <1>0, <2>1, <2>2, <3>1 DEF RenewInv
  <2>4. CASE ~Return(s)
    <3>1. hist'.lapse = hist.lapse  BY <1>8, <2>4, LapseStep
    <3>2. LapseTypes'  BY <3>1 DEF RenewInv, LapseTypes
    <3>3. \A d \in Domain : DomainDays(d)'  BY <2>1, <3>1, DomainQuiet
    <3> QED BY <1>0, <2>1, <2>2, <3>2, <3>3 DEF RenewInv
  <2> QED BY <2>3, <2>4
<1> QED BY <1>4, <1>5, <1>6, <1>7, <1>8 DEF Next

LEMMA InitRenewInv ==
  ASSUME Init
  PROVE  RenewInv
<1>1. /\ days = [d \in Domain |-> 0] /\ hist.lapse = [d \in Domain |-> RenewDays + 1]
      /\ due = {} /\ calls = [s \in Slot |-> Idle]
  BY DEF Init
<1>2. \A s \in Slot : ~Busy(s)  BY <1>1 DEF Busy, Idle
<1>3. RenewDays \in Nat /\ Lifetime \in Nat  BY CertAssumption
<1>4. \A d \in Domain : days[d] = 0 /\ hist.lapse[d] = RenewDays + 1  BY <1>1
<1>5. DayTypes  BY <1>1, <1>3, <1>4 DEF DayTypes
<1>6. LapseTypes  BY <1>1, <1>3, <1>4 DEF LapseTypes
<1>7. \A d \in Domain : DomainDays(d)  BY <1>3, <1>4 DEF DomainDays
<1> QED BY <1>1, <1>2, <1>5, <1>6, <1>7 DEF RenewInv

(* A renewal that went well is good for --days days (cmd_renew.go:194),     *)
(* whatever the ticks after it come to: a certificate that a node serves    *)
(* runs out only when no renewal of its domain went well for longer.        *)
THEOREM CertificateLasts == Spec => []ServedCertRenewed
<1>1. Init => CertInv /\ RenewInv  BY InitCertInv, InitRenewInv
<1>2. CertInv /\ RenewInv /\ [Next]_vars => CertInv' /\ RenewInv'
  BY NextCertInv, RenewNext DEF CertInv
<1>3. RenewInv => ServedCertRenewed
  <2>1. SUFFICES ASSUME RenewInv, NEW n \in Node, NEW d \in Domain, hist.lapse[d] <= RenewDays
                 PROVE  days[d] > 0
    BY DEF ServedCertRenewed
  <2>2. /\ days[d] + hist.lapse[d] > RenewDays /\ days[d] \in 0..Lifetime
        /\ hist.lapse[d] \in 0..(RenewDays + 1) /\ RenewDays \in Nat /\ Lifetime \in Nat
    BY <2>1, CertAssumption DEF RenewInv, DayTypes, LapseTypes, DomainDays
  <2> QED BY <2>1, <2>2
<1> QED BY <1>1, <1>2, <1>3, PTL DEF Spec

-----------------------------------------------------------------------------
(* The process environment.                                                 *)

(* What a variable may hold: its own value, or that of a configuration.     *)
EnvValues(x) == {InitEnv[x]} \cup {Cert(n).DNSEnv[x] :
                                      n \in {m \in Node : x \in DOMAIN Cert(m).DNSEnv}}

Values == UNION {EnvValues(x) : x \in Key}

(* The variables a call saves are those it sets, each before it sets it.    *)
CallEnv(s) ==
    /\ calls[s].saved \in Seq(Key \X Values)
    /\ calls[s].todo \subseteq DOMAIN Cert(calls[s].node).DNSEnv
    /\ \A p \in Range(calls[s].saved) :
          /\ p[1] \in DOMAIN Cert(calls[s].node).DNSEnv \ BadKey
          /\ p[1] \notin calls[s].todo /\ p[2] \in EnvValues(p[1])

(* Before calls cross, one call at most holds variables, it has saved what  *)
(* they were, and no other variable differs.                                *)
OneHolder ==
    /\ \A s, t \in Slot : Holds(s) /\ Holds(t) => s = t
    /\ \A s \in Slot : Holds(s) => \A p \in Range(calls[s].saved) : p[2] = InitEnv[p[1]]
    /\ \A x \in Key : env[x] # InitEnv[x] =>
          \E s \in Slot : Holds(s) /\ \E p \in Range(calls[s].saved) : p[1] = x

EnvTypes == /\ env = [x \in Key |-> env[x]] /\ \A x \in Key : env[x] \in EnvValues(x)
            /\ hist.crossed \in BOOLEAN

EnvInv == /\ EnvTypes
          /\ \A s \in Slot : Busy(s) => CallEnv(s)
          /\ RefusedAlone /\ ~hist.crossed => OneHolder

(* The elements of a sequence, of its front and of what is appended to it.  *)
LEMMA AppendRange ==
  ASSUME NEW S, NEW q \in Seq(S), NEW e \in S
  PROVE  /\ Append(q, e) \in Seq(S) /\ Append(q, e) # <<>>
         /\ \A p \in Range(Append(q, e)) : p \in Range(q) \/ p = e
         /\ \A p \in Range(q) : p \in Range(Append(q, e))
         /\ e \in Range(Append(q, e))
<1>1. Append(q, e) \in Seq(S) /\ Len(Append(q, e)) = Len(q) + 1 /\ Len(q) \in Nat  OBVIOUS
<1>2. \A i \in 1 .. Len(q) : Append(q, e)[i] = q[i]  OBVIOUS
<1>3. Append(q, e)[Len(q) + 1] = e  OBVIOUS
<1> DEFINE r == Append(q, e)
<1> HIDE DEF r
<1>4. DOMAIN r = 1 .. (Len(q) + 1) /\ DOMAIN q = 1 .. Len(q)  BY <1>1 DEF r
<1>5. \A p \in Range(r) : p \in Range(q) \/ p = e  BY <1>1, <1>2, <1>3, <1>4 DEF Range, r
<1>6. \A p \in Range(q) : p \in Range(r)  BY <1>1, <1>2, <1>4 DEF Range, r
<1>7. e \in Range(r)  BY <1>1, <1>3, <1>4 DEF Range, r
<1> QED BY <1>1, <1>5, <1>6, <1>7 DEF r

LEMMA FrontRange ==
  ASSUME NEW S, NEW q \in Seq(S), q # <<>>
  PROVE  /\ Last(q) \in Range(q) /\ Front(q) \in Seq(S)
         /\ \A p \in Range(Front(q)) : p \in Range(q)
         /\ \A p \in Range(q) : p = Last(q) \/ p \in Range(Front(q))
<1>1. Len(q) \in Nat \ {0} /\ DOMAIN q = 1 .. Len(q)  OBVIOUS
<1>2. Last(q) = q[Len(q)]  BY DEF Last
<1>3. Front(q) = SubSeq(q, 1, Len(q) - 1)  BY DEF Front
<1>4. /\ Front(q) \in Seq(S) /\ Len(Front(q)) = Len(q) - 1
      /\ \A i \in 1 .. (Len(q) - 1) : Front(q)[i] = q[i]
  BY <1>1, <1>3
<1>5. DOMAIN Front(q) = 1 .. (Len(q) - 1)  BY <1>4
<1> QED BY <1>1, <1>2, <1>4, <1>5 DEF Range

LEMMA RangeEmpty ==
  ASSUME NEW S, NEW q \in Seq(S)
  PROVE  (\A p : p \notin Range(q)) <=> q = <<>>
<1>1. q # <<>> => q[1] \in Range(q)  BY DEF Range
<1>2. q = <<>> => \A p : p \notin Range(q)  BY DEF Range
<1> QED BY <1>1, <1>2

(* A step that leaves the environment, and what the calls hold of it, alone *)
LEMMA EnvQuiet ==
  ASSUME EnvInv, UNCHANGED <<local, env>>, hist'.crossed = hist.crossed,
         \A t \in Slot : Busy(t)' =>
            \/ /\ Busy(t) /\ calls'[t].node = calls[t].node /\ calls'[t].saved = calls[t].saved
               /\ calls'[t].todo \subseteq calls[t].todo
            \/ /\ ~Busy(t) /\ calls'[t].saved = <<>>
               /\ calls'[t].todo \subseteq DOMAIN Cert(calls'[t].node).DNSEnv,
         \A t \in Slot : Holds(t) => Busy(t)'
  PROVE  EnvInv'
<1>1. /\ \A n : Cert(n)' = Cert(n) /\ \A x : EnvValues(x)' = EnvValues(x)
      /\ Values' = Values
  BY DEF Cert, EnvValues, Values
<1>2. EnvTypes'  BY <1>1 DEF EnvInv, EnvTypes
<1>3. ASSUME NEW t \in Slot, Busy(t)'
      PROVE  CallEnv(t)'
  <2>1. CASE Busy(t)
    <3>1. CallEnv(t) /\ calls'[t].node = calls[t].node /\ calls'[t].saved = calls[t].saved
          /\ calls'[t].todo \subseteq calls[t].todo
      BY <1>3, <2>1 DEF EnvInv
    <3> QED BY <1>1, <3>1 DEF CallEnv
  <2>2. CASE ~Busy(t)
    <3>1. calls'[t].saved = <<>> /\ calls'[t].todo \subseteq DOMAIN Cert(calls'[t].node).DNSEnv
      BY <1>3, <2>2
    <3>2. calls'[t].saved \in Seq(Key \X Values)  BY <3>1
    <3>3. \A p : p \notin Range(calls'[t].saved)  BY <3>1, <3>2, RangeEmpty
    <3> QED BY <1>1, <3>1, <3>2, <3>3 DEF CallEnv
  <2> QED BY <2>1, <2>2
<1>4. \A t \in Slot : (Holds(t)' <=> Holds(t))
                      /\ (Holds(t) => calls'[t].saved = calls[t].saved)
  BY DEF Holds, Busy
<1>5. OneHolder => OneHolder'  BY <1>4 DEF OneHolder
<1> QED BY <1>2, <1>3, <1>5 DEF EnvInv

(* A step of one call that does not touch the environment.                  *)
LEMMA EnvFrame ==
  ASSUME EnvInv, NEW s \in Slot, Busy(s), Frame(s), calls'[s].saved = calls[s].saved,
         calls'[s].todo \subseteq calls[s].todo, UNCHANGED <<local, env>>,
         hist'.crossed = hist.crossed
  PROVE  EnvInv'
<1>1. \A t \in Slot : Busy(t)' =>
         /\ Busy(t) /\ calls'[t].node = calls[t].node /\ calls'[t].saved = calls[t].saved
         /\ calls'[t].todo \subseteq calls[t].todo
  BY DEF Frame, Busy
<1>2. \A t \in Slot : Holds(t) => Busy(t)'  BY DEF Frame, Holds, Busy
<1> QED BY <1>1, <1>2, EnvQuiet

(* What a variable may hold is fixed with the configurations.               *)
LEMMA EnvFixed ==
  ASSUME local' = local
  PROVE  /\ \A n : Cert(n)' = Cert(n) /\ \A x : EnvValues(x)' = EnvValues(x)
         /\ Values' = Values
BY DEF Cert, EnvValues, Values

(* The names a call sets are variables, all of them refused or none.        *)
LEMMA CallNames ==
  ASSUME Calls, NEW s \in Slot, Busy(s)
  PROVE  /\ DOMAIN Cert(calls[s].node).DNSEnv \subseteq Key
         /\ RefusedAlone => \/ DOMAIN Cert(calls[s].node).DNSEnv \subseteq BadKey
                            \/ DOMAIN Cert(calls[s].node).DNSEnv \cap BadKey = {}
<1>1. calls[s].node \in Node /\ Acme(local[calls[s].node]) /\ local \in Locals  BY DEF Calls
<1>2. DOMAIN local[calls[s].node].CertConfig.DNSEnv \subseteq Key
  BY <1>1, CertAssumption DEF Node
<1> QED BY <1>1, <1>2 DEF Cert, RefusedAlone

(* A refused variable or value: those set before it are given back, or,     *)
(* with a refused name, there are none.                                     *)
LEMMA EnvRefused ==
  ASSUME Calls, EnvInv, NEW s \in Slot, Busy(s), NEW x \in calls[s].todo,
         Leaves(s, FALSE), calls'[s].saved = <<>>, UNCHANGED <<local, hist>>,
         env' = IF x \in BadKey THEN env ELSE RolledBack(calls[s].saved)
  PROVE  EnvInv'
<1> DEFINE q == calls[s].saved
<1>1. /\ \A n : Cert(n)' = Cert(n) /\ \A y : EnvValues(y)' = EnvValues(y)
      /\ Values' = Values
  BY EnvFixed
<1>2. CallEnv(s) /\ EnvTypes  BY DEF EnvInv
<1>3. \A t \in Slot : t # s => calls'[t] = calls[t]  BY DEF Leaves, Frame
<1>4. calls'[s].todo = {} /\ ~Holds(s)'  BY DEF Leaves, Holds
<1>5. ASSUME x \notin BadKey, NEW y \in Key
      PROVE  \/ \E p \in Range(q) : p[1] = y /\ env'[y] = p[2]
             \/ env'[y] = env[y] /\ ~\E p \in Range(q) : p[1] = y
  <2>1. env'[y] = IF \E p \in Range(q) : p[1] = y
                  THEN (CHOOSE p \in Range(q) : p[1] = y)[2] ELSE env[y]
    BY <1>5 DEF RolledBack
  <2>2. CASE \E p \in Range(q) : p[1] = y
    <3>1. PICK p \in Range(q) : p = CHOOSE r \in Range(q) : r[1] = y  BY <2>2
    <3>2. p[1] = y  BY <2>2, <3>1
    <3> QED BY <2>1, <2>2, <3>1, <3>2
  <2> QED BY <2>1, <2>2
<1>6. EnvTypes'
  <2>1. env' = [y \in Key |-> env'[y]]  BY <1>2 DEF EnvTypes, RolledBack
  <2>2. ASSUME NEW y \in Key
        PROVE  env'[y] \in EnvValues(y)
    <3>1. CASE x \in BadKey  BY <1>2, <3>1 DEF EnvTypes
    <3>2. CASE x \notin BadKey
      <4>1. env[y] \in EnvValues(y)  BY <1>2 DEF EnvTypes
      <4>2. \A p \in Range(q) : p[1] = y => p[2] \in EnvValues(y)  BY <1>2 DEF CallEnv
      <4> QED BY <1>5, <3>2, <4>1, <4>2
    <3> QED BY <3>1, <3>2
  <2> QED BY <1>1, <1>2, <2>1, <2>2 DEF EnvTypes
<1>7. ASSUME NEW t \in Slot, Busy(t)'
      PROVE  CallEnv(t)'
  <2>1. CASE t # s
    <3>1. calls'[t] = calls[t] /\ CallEnv(t)  BY <1>3, <1>7, <2>1 DEF EnvInv, Busy
    <3> QED BY <1>1, <3>1 DEF CallEnv
  <2>2. CASE t = s
    <3>1. <<>> \in Seq(Key \X Values) /\ calls'[t].saved = <<>>  BY <2>2
    <3>2. \A p : p \notin Range(calls'[t].saved)  BY <2>2, <3>1, RangeEmpty
    <3> QED BY <1>1, <1>4, <2>2, <3>1, <3>2 DEF CallEnv
  <2> QED BY <2>1, <2>2
<1>8. ASSUME RefusedAlone, ~hist.crossed
      PROVE  OneHolder'
  <2>1. OneHolder  BY <1>8 DEF EnvInv
  <2>2. \A t \in Slot : Holds(t)' => t # s /\ Holds(t) /\ calls'[t].saved = calls[t].saved
    BY <1>3, <1>4 DEF Holds, Busy
  <2>3. \A t \in Slot : t # s /\ Holds(t) => Holds(t)' /\ calls'[t].saved = calls[t].saved
    BY <1>3 DEF Holds, Busy
  <2>4. ASSUME NEW y \in Key, env'[y] # InitEnv[y]
        PROVE  \E t \in Slot : Holds(t)' /\ \E p \in Range(calls'[t].saved) : p[1] = y
    <3>1. env[y] # InitEnv[y] /\ ~\E p \in Range(q) : p[1] = y
      <4>1. CASE x \in BadKey
        <5>1. DOMAIN Cert(calls[s].node).DNSEnv \subseteq BadKey
          <6>1. x \in DOMAIN Cert(calls[s].node).DNSEnv  BY <1>2 DEF CallEnv
          <6> QED BY <1>8, <4>1, <6>1, CallNames
        <5>2. \A p : p \notin Range(q)  BY <1>2, <5>1 DEF CallEnv
        <5> QED BY <2>4, <4>1, <5>2
      <4>2. CASE x \notin BadKey
        <5>1. Busy(s) /\ \A p \in Range(q) : q # <<>>
          BY <1>2, RangeEmpty DEF CallEnv
        <5>2. \A p \in Range(q) : p[2] = InitEnv[p[1]]  BY <2>1, <5>1 DEF OneHolder, Holds
        <5> QED BY <1>5, <2>4, <4>2, <5>2
      <4> QED BY <4>1, <4>2
    <3>2. PICK t \in Slot : Holds(t) /\ \E p \in Range(calls[t].saved) : p[1] = y
      BY <2>1, <3>1 DEF OneHolder
    <3> QED BY <2>3, <3>1, <3>2
  <2>5. \A t, u \in Slot : Holds(t)' /\ Holds(u)' => t = u  BY <2>1, <2>2 DEF OneHolder
  <2>6. \A t \in Slot : Holds(t)' => \A p \in Range(calls'[t].saved) : p[2] = InitEnv[p[1]]
    BY <2>1, <2>2 DEF OneHolder
  <2> QED BY <2>4, <2>5, <2>6 DEF OneHolder
<1> QED BY <1>6, <1>7, <1>8 DEF EnvInv, RefusedAlone

(* A variable set.                                                          *)
LEMMA EnvSet ==
  ASSUME Calls, EnvInv, NEW s \in Slot, Busy(s), NEW x \in calls[s].todo, x \notin BadKey,
         Frame(s), calls'[s].todo = calls[s].todo \ {x}, local' = local,
         calls'[s].saved = Append(calls[s].saved, <<x, env[x]>>),
         env' = [env EXCEPT ![x] = Cert(calls[s].node).DNSEnv[x]],
         hist'.crossed = (hist.crossed \/ \E t \in Slot \ {s} : Holds(t))
  PROVE  EnvInv'
<1> DEFINE q == calls[s].saved
           e == <<x, env[x]>>
<1>1. /\ \A n : Cert(n)' = Cert(n) /\ \A y : EnvValues(y)' = EnvValues(y)
      /\ Values' = Values
  BY EnvFixed
<1>2. CallEnv(s) /\ EnvTypes  BY DEF EnvInv
<1>3. \A t \in Slot : t # s => calls'[t] = calls[t]  BY DEF Frame
<1>4. x \in DOMAIN Cert(calls[s].node).DNSEnv /\ x \in Key
  BY <1>2, CallNames DEF CallEnv
<1>5. env[x] \in EnvValues(x) /\ e \in Key \X Values  BY <1>2, <1>4 DEF EnvTypes, Values
<1>6. /\ calls'[s].saved \in Seq(Key \X Values) /\ calls'[s].saved # <<>>
      /\ \A p \in Range(calls'[s].saved) : p \in Range(q) \/ p = e
      /\ \A p \in Range(q) : p \in Range(calls'[s].saved)
      /\ e \in Range(calls'[s].saved)
  <2>1. q \in Seq(Key \X Values)  BY <1>2 DEF CallEnv
  <2>2. PICK S : S = Key \X Values  OBVIOUS
  <2>3. PICK r : r = calls'[s].saved  OBVIOUS
  <2>4. q \in Seq(S) /\ e \in S /\ r = Append(q, e)  BY <1>5, <2>1, <2>2, <2>3
  <2> HIDE DEF q, e
  <2>5. /\ r \in Seq(S) /\ r # <<>> /\ e \in Range(r)
        /\ \A p \in Range(r) : p \in Range(q) \/ p = e
        /\ \A p \in Range(q) : p \in Range(r)
    BY <2>4, AppendRange
  <2> QED BY <2>2, <2>3, <2>5
<1>7. EnvTypes'
  <2>1. Cert(calls[s].node).DNSEnv[x] \in EnvValues(x)
    BY <1>4 DEF EnvValues, Calls
  <2>2. env' = [y \in Key |-> env'[y]]  BY <1>2 DEF EnvTypes
  <2>3. \A y \in Key : env'[y] \in EnvValues(y)  BY <1>2, <2>1 DEF EnvTypes
  <2>4. hist'.crossed \in BOOLEAN  BY <1>2 DEF EnvTypes
  <2> QED BY <1>1, <2>2, <2>3, <2>4 DEF EnvTypes
<1>8. ASSUME NEW t \in Slot, Busy(t)'
      PROVE  CallEnv(t)'
  <2>1. CASE t # s
    <3>1. calls'[t] = calls[t] /\ CallEnv(t)  BY <1>3, <1>8, <2>1 DEF EnvInv, Busy
    <3> QED BY <1>1, <3>1 DEF CallEnv
  <2>2. CASE t = s
    <3>1. calls'[s].node = calls[s].node  BY DEF Frame
    <3>2. \A p \in Range(calls'[s].saved) :
             /\ p[1] \in DOMAIN Cert(calls[s].node).DNSEnv \ BadKey
             /\ p[1] \notin calls'[s].todo /\ p[2] \in EnvValues(p[1])
      <4>1. SUFFICES ASSUME NEW p \in Range(calls'[s].saved)
                     PROVE  /\ p[1] \in DOMAIN Cert(calls[s].node).DNSEnv \ BadKey
                            /\ p[1] \notin calls'[s].todo /\ p[2] \in EnvValues(p[1])
        OBVIOUS
      <4>2. CASE p \in Range(q)  BY <1>2, <4>2 DEF CallEnv
      <4>3. CASE p = e  BY <1>4, <1>5, <4>3
      <4> QED BY <1>6, <4>2, <4>3
    <3>3. calls'[s].todo \subseteq DOMAIN Cert(calls[s].node).DNSEnv  BY <1>2 DEF CallEnv
    <3> QED BY <1>1, <1>6, <2>2, <3>1, <3>2, <3>3 DEF CallEnv
  <2> QED BY <2>1, <2>2
<1>9. ASSUME RefusedAlone, ~hist'.crossed
      PROVE  OneHolder'
  <2>1. ~hist.crossed /\ \A t \in Slot : t # s => ~Holds(t)  BY <1>9
  <2>2. OneHolder  BY <1>9, <2>1 DEF EnvInv
  <2>3. \A t \in Slot : Holds(t)' => t = s  BY <1>3, <2>1 DEF Holds, Busy
  <2>4. Holds(s)'  BY <1>6 DEF Holds, Busy, Frame
  <2>5. env[x] = InitEnv[x]
    <3>1. \A p \in Range(q) : p[1] # x  BY <1>2 DEF CallEnv
    <3> QED BY <1>4, <2>1, <2>2, <3>1 DEF OneHolder
  <2>6. \A p \in Range(q) : q # <<>>  BY <1>2, RangeEmpty DEF CallEnv
  <2>7. \A p \in Range(calls'[s].saved) : p[2] = InitEnv[p[1]]
    <3>1. \A p \in Range(q) : p[2] = InitEnv[p[1]]  BY <2>2, <2>6 DEF OneHolder, Holds
    <3> QED BY <1>6, <2>5, <3>1
  <2>8. ASSUME NEW y \in Key, env'[y] # InitEnv[y]
        PROVE  \E p \in Range(calls'[s].saved) : p[1] = y
    <3>1. CASE y = x  BY <1>6, <3>1
    <3>2. CASE y # x
      <4>1. env[y] # InitEnv[y]  BY <1>2, <2>8, <3>2 DEF EnvTypes
      <4>2. \E p \in Range(q) : p[1] = y  BY <2>1, <2>2, <4>1 DEF OneHolder
      <4> QED BY <1>6, <4>2
    <3> QED BY <3>1, <3>2
  <2> QED BY <2>3, <2>4, <2>7, <2>8 DEF OneHolder
<1> QED BY <1>7, <1>8, <1>9 DEF EnvInv, RefusedAlone

(* The last variable given back.                                            *)
LEMMA EnvCleanup ==
  ASSUME Calls, EnvInv, NEW s \in Slot, Busy(s), Frame(s), calls[s].saved # <<>>,
         calls'[s].todo = calls[s].todo, calls'[s].saved = Front(calls[s].saved),
         env' = Restored(Last(calls[s].saved)), UNCHANGED <<local, hist>>
  PROVE  EnvInv'
<1> DEFINE q == calls[s].saved
           e == Last(q)
<1>1. /\ \A n : Cert(n)' = Cert(n) /\ \A y : EnvValues(y)' = EnvValues(y)
      /\ Values' = Values
  BY EnvFixed
<1>2. CallEnv(s) /\ EnvTypes  BY DEF EnvInv
<1>3. \A t \in Slot : t # s => calls'[t] = calls[t]  BY DEF Frame
<1>4. /\ e \in Range(q) /\ calls'[s].saved \in Seq(Key \X Values)
      /\ \A p \in Range(calls'[s].saved) : p \in Range(q)
      /\ \A p \in Range(q) : p = e \/ p \in Range(calls'[s].saved)
  BY <1>2, FrontRange DEF CallEnv
<1>5. /\ e[1] \in Key /\ e[2] \in EnvValues(e[1])
      /\ env' = [env EXCEPT ![e[1]] = e[2]]
  BY <1>2, <1>4, CallNames DEF CallEnv, Restored
<1>6. EnvTypes'
  <2>1. env' = [y \in Key |-> env'[y]] /\ \A y \in Key : env'[y] \in EnvValues(y)
    BY <1>2, <1>5 DEF EnvTypes
  <2> QED BY <1>1, <1>2, <2>1 DEF EnvTypes
<1>7. ASSUME NEW t \in Slot, Busy(t)'
      PROVE  CallEnv(t)'
  <2>1. CASE t # s
    <3>1. calls'[t] = calls[t] /\ CallEnv(t)  BY <1>3, <1>7, <2>1 DEF EnvInv, Busy
    <3> QED BY <1>1, <3>1 DEF CallEnv
  <2>2. CASE t = s
    <3>1. calls'[s].node = calls[s].node  BY DEF Frame
    <3> QED BY <1>1, <1>2, <1>4, <2>2, <3>1 DEF CallEnv
  <2> QED BY <2>1, <2>2
<1>8. ASSUME RefusedAlone, ~hist.crossed
      PROVE  OneHolder'
  <2>1. OneHolder /\ Holds(s)  BY <1>8 DEF EnvInv, Holds
  <2>2. \A t \in Slot : Holds(t)' => t = s
    BY <1>3, <2>1 DEF Holds, Busy, OneHolder
  <2>3. \A p \in Range(q) : p[2] = InitEnv[p[1]]  BY <2>1 DEF OneHolder
  <2>4. ASSUME NEW y \in Key, env'[y] # InitEnv[y]
        PROVE  Holds(s)' /\ \E p \in Range(calls'[s].saved) : p[1] = y
    <3>1. y # e[1]  BY <1>2, <1>4, <1>5, <2>3, <2>4 DEF EnvTypes
    <3>2. env[y] # InitEnv[y]  BY <1>2, <1>5, <2>4, <3>1 DEF EnvTypes
    <3>3. PICK p \in Range(q) : p[1] = y  BY <2>1, <3>2 DEF OneHolder
    <3>4. p \in Range(calls'[s].saved)  BY <1>4, <3>1, <3>3
    <3>5. calls'[s].saved # <<>>  BY <1>4, <3>4, RangeEmpty
    <3> QED BY <3>3, <3>4, <3>5 DEF Holds, Busy, Frame
  <2> QED BY <1>4, <2>2, <2>3, <2>4 DEF OneHolder
<1> QED BY <1>6, <1>7, <1>8 DEF EnvInv, RefusedAlone

(* Every step of a call keeps the environment.                              *)
LEMMA EnvStep ==
  ASSUME Calls, EnvInv, NEW s \in Slot, Step(s)
  PROVE  EnvInv'
<1>1. ASSUME NEW r, NEW sp, NEW m, HistTo(hist.crossed, r, sp, m)
      PROVE  hist'.crossed = hist.crossed
  BY <1>1 DEF HistTo
<1>2. ASSUME Busy(s), \E pc : Moves(s, pc), UNCHANGED <<local, env>>,
             hist'.crossed = hist.crossed
      PROVE  EnvInv'
  BY <1>2, EnvFrame DEF Moves
<1>3. ASSUME Busy(s), \E ok : Leaves(s, ok), calls'[s].saved = calls[s].saved,
             UNCHANGED <<local, env>>, hist'.crossed = hist.crossed
      PROVE  EnvInv'
  BY <1>3, EnvFrame DEF Leaves
<1>4. ASSUME Busy(s), Panics(s), UNCHANGED <<local, env>>
      PROVE  EnvInv'
  <2>1. hist'.crossed = hist.crossed  BY <1>1, <1>4 DEF Panics
  <2>2. Leaves(s, FALSE) /\ calls'[s].saved = calls[s].saved  BY <1>4 DEF Panics
  <2> QED BY <1>3, <1>4, <2>1, <2>2
<1>5. CASE ApplyDNSEnv(s)
  <2>1. Busy(s) /\ local' = local  BY <1>5, ApplyEffect
  <2>2. PICK x \in calls[s].todo :
          \/ /\ Leaves(s, FALSE) /\ calls'[s].saved = <<>>
             /\ env' = IF x \in BadKey THEN env ELSE RolledBack(calls[s].saved)
             /\ hist' = hist
          \/ /\ x \notin BadKey /\ Frame(s)
             /\ calls'[s].todo = calls[s].todo \ {x}
             /\ calls'[s].saved = Append(calls[s].saved, <<x, env[x]>>)
             /\ env' = [env EXCEPT ![x] = Cert(calls[s].node).DNSEnv[x]]
             /\ HistTo(hist.crossed \/ (\E t \in Slot \ {s} : Holds(t)), hist.raced,
                       hist.spoiled, hist.lapse)
    BY <1>5, ApplyEffect DEF Refuses
  <2>3. CASE /\ Leaves(s, FALSE) /\ calls'[s].saved = <<>>
             /\ env' = IF x \in BadKey THEN env ELSE RolledBack(calls[s].saved)
             /\ hist' = hist
    BY <2>1, <2>3, EnvRefused
  <2>4. CASE /\ x \notin BadKey /\ Frame(s)
             /\ calls'[s].todo = calls[s].todo \ {x}
             /\ calls'[s].saved = Append(calls[s].saved, <<x, env[x]>>)
             /\ env' = [env EXCEPT ![x] = Cert(calls[s].node).DNSEnv[x]]
             /\ HistTo(hist.crossed \/ (\E t \in Slot \ {s} : Holds(t)), hist.raced,
                       hist.spoiled, hist.lapse)
    <3>1. hist'.crossed = (hist.crossed \/ \E t \in Slot \ {s} : Holds(t))
      <4> DEFINE C == hist.crossed \/ \E t \in Slot \ {s} : Holds(t)
      <4>1. HistTo(C, hist.raced, hist.spoiled, hist.lapse)  BY <2>4
      <4> HIDE DEF C
      <4>2. hist'.crossed = C  BY <4>1 DEF HistTo
      <4> QED BY <4>2 DEF C
    <3> QED BY <2>1, <2>4, <3>1, EnvSet
  <2> QED BY <2>2, <2>3, <2>4
<1>6. CASE FirstCheck(s)
  <2>1. /\ Busy(s) /\ UNCHANGED <<local, env, hist>>
        /\ \/ Leaves(s, TRUE) /\ calls'[s].saved = calls[s].saved
           \/ Moves(s, "key")
    BY <1>6, FirstCheckEffect
  <2> QED BY <1>2, <1>3, <2>1
<1>7. CASE GetPrivateKey(s)
  <2>1. /\ Busy(s) /\ UNCHANGED <<local, env>>
        /\ \/ /\ Moves(s, "create")
              /\ \E r : HistTo(hist.crossed, r, hist.spoiled, hist.lapse)
           \/ Panics(s)
           \/ Moves(s, "account") /\ hist' = hist
    BY <1>7, GetPrivateKeyEffect
  <2> QED BY <1>1, <1>2, <1>4, <2>1
<1>8. CASE CreateKeyFile(s)
  <2>1. Busy(s) /\ (\E pc : Moves(s, pc)) /\ UNCHANGED <<local, env, hist>>
    BY <1>8, CreateKeyFileEffect
  <2> QED BY <1>2, <2>1
<1>9. CASE EncodeKey(s)
  <2>1. Busy(s) /\ (\E pc : Moves(s, pc)) /\ UNCHANGED <<local, env, hist>>
    BY <1>9, EncodeKeyEffect
  <2> QED BY <1>2, <2>1
<1>10. CASE LoadAccount(s)
  <2>1. /\ Busy(s) /\ UNCHANGED <<local, env>>
        /\ Panics(s) \/ ((\E pc : Moves(s, pc)) /\ hist' = hist)
    BY <1>10, LoadAccountEffect
  <2> QED BY <1>2, <1>4, <2>1
<1>11. CASE SetupChallenges(s)
  <2>1. /\ Busy(s) /\ UNCHANGED <<local, env>>
        /\ Panics(s) \/ ((\E pc : Moves(s, pc)) /\ hist' = hist)
    BY <1>11, SetupChallengesEffect
  <2> QED BY <1>2, <1>4, <2>1
<1>12. CASE Register(s)
  <2>1. Busy(s) /\ (\E pc : Moves(s, pc)) /\ UNCHANGED <<local, env, hist>>
    BY <1>12, RegisterEffect
  <2> QED BY <1>2, <2>1
<1>13. CASE SaveAccount(s)
  <2>1. Busy(s) /\ (\E pc : Moves(s, pc)) /\ UNCHANGED <<local, env, hist>>
    BY <1>13, SaveAccountEffect
  <2> QED BY <1>2, <2>1
<1>14. CASE RenewForDomains(s)
  <2>1. /\ Busy(s) /\ UNCHANGED <<local, env>>
        /\ \/ Panics(s)
           \/ Moves(s, "obtain") /\ hist' = hist
           \/ Leaves(s, TRUE) /\ calls'[s].saved = calls[s].saved /\ hist' = hist
    BY <1>14, RenewForDomainsEffect
  <2> QED BY <1>2, <1>3, <1>4, <2>1
<1>15. CASE Obtain(s)
  <2>1. /\ Busy(s) /\ UNCHANGED <<local, env>>
        /\ Panics(s) \/ (Moves(s, "crt0") /\ hist' = hist)
    BY <1>15, ObtainEffect
  <2> QED BY <1>2, <1>4, <2>1
<1>16. CASE TruncateCrt(s)
  <2>1. /\ UNCHANGED <<local, env>>
        /\ \E sp : HistTo(hist.crossed, hist.raced, sp, hist.lapse)
    BY <1>16, TruncateHist
  <2>2. \A t \in Slot : Busy(t) => /\ Busy(t)' /\ calls'[t].node = calls[t].node
                                   /\ calls'[t].saved = calls[t].saved
                                   /\ calls'[t].todo = calls[t].todo
    BY <1>16, TruncateEffect DEF Busy
  <2>3. \A t \in Slot : Busy(t)' => Busy(t)
    <3>1. Busy(s) /\ \A t \in Slot : calls'[t].pc = IF t = s THEN "crt1" ELSE calls[t].pc
      BY <1>16, TruncateEffect, TruncateHist
    <3> QED BY <3>1 DEF Busy
  <2>4. \A t \in Slot : Holds(t) => Busy(t)'  BY <2>2 DEF Holds
  <2> QED BY <1>1, <2>1, <2>2, <2>3, <2>4, EnvQuiet
<1>17. CASE WriteCrt(s)
  <2>1. Busy(s) /\ (\E pc : Moves(s, pc)) /\ UNCHANGED <<local, env, hist>>
    BY <1>17, WriteCrtEffect
  <2> QED BY <1>2, <2>1
<1>18. CASE TruncateKey(s)
  <2>1. Busy(s) /\ (\E pc : Moves(s, pc)) /\ UNCHANGED <<local, env, hist>>
    BY <1>18, TruncateKeyEffect
  <2> QED BY <1>2, <2>1
<1>19. CASE WriteKey(s)
  <2>1. /\ Busy(s) /\ UNCHANGED <<local, env>> /\ \E pc : Moves(s, pc)
        /\ \E sp : HistTo(hist.crossed, hist.raced, sp, hist.lapse)
    BY <1>19, WriteKeyEffect
  <2> QED BY <1>1, <1>2, <2>1
<1>20. CASE LastCheck(s)
  <2>1. /\ Busy(s) /\ UNCHANGED <<local, env, hist>> /\ calls'[s].saved = calls[s].saved
        /\ \E ok : Leaves(s, ok)
    BY <1>20, LastCheckEffect
  <2> QED BY <1>3, <2>1
<1>21. CASE Cleanup(s)
  <2>1. /\ Busy(s) /\ Frame(s) /\ calls[s].saved # <<>>
        /\ calls'[s].todo = calls[s].todo /\ calls'[s].saved = Front(calls[s].saved)
        /\ env' = Restored(Last(calls[s].saved)) /\ UNCHANGED <<local, hist>>
    BY <1>21, CleanupEffect
  <2> QED BY <2>1, EnvCleanup
<1>22. CASE Return(s)
  <2> DEFINE C == hist.crossed /\ (env # InitEnv \/ \E t \in Slot : Holds(t))
  <2>1. /\ Busy(s) /\ Over(s) /\ calls[s].saved = <<>> /\ UNCHANGED <<local, env>>
        /\ \E r, sp, m : HistTo(C, r, sp, m)
    BY <1>22, ReturnEffect
  <2>2. hist'.crossed = C
    <3> HIDE DEF C
    <3> QED BY <2>1 DEF HistTo
  <2>3. \A t \in Slot : /\ Busy(t)' => Busy(t) /\ t # s /\ calls'[t] = calls[t]
                        /\ Holds(t) => Busy(t)' /\ t # s /\ calls'[t] = calls[t]
    BY <2>1 DEF Over, Busy, Holds
  <2>4. CASE hist'.crossed = hist.crossed  BY <2>1, <2>3, <2>4, EnvQuiet
  <2>5. CASE hist'.crossed # hist.crossed
    <3>1. hist.crossed \in BOOLEAN  BY DEF EnvInv, EnvTypes
    <3>2. ~hist'.crossed /\ hist'.crossed \in BOOLEAN /\ env = InitEnv
          /\ \A t \in Slot : ~Holds(t)
      <4>1. CASE hist.crossed = FALSE  BY <2>2, <2>5, <4>1
      <4>2. CASE hist.crossed = TRUE
        <5> DEFINE D == env # InitEnv \/ \E t \in Slot : Holds(t)
        <5>1. hist'.crossed = D  BY <2>2, <4>2
        <5>2. ~D  BY <2>5, <4>2, <5>1
        <5> QED BY <5>1, <5>2
      <4> QED BY <3>1, <4>1, <4>2
    <3>3. /\ \A n : Cert(n)' = Cert(n) /\ \A y : EnvValues(y)' = EnvValues(y)
          /\ Values' = Values
      BY <2>1, EnvFixed
    <3>4. EnvTypes'  BY <2>1, <3>2, <3>3 DEF EnvInv, EnvTypes
    <3>5. \A t \in Slot : Busy(t)' => CallEnv(t)'
      BY <2>3, <3>3 DEF EnvInv, CallEnv
    <3>6. \A t \in Slot : ~Holds(t)'  BY <2>3, <3>2 DEF Holds
    <3>7. OneHolder'  BY <2>1, <3>2, <3>6 DEF OneHolder
    <3> QED BY <3>4, <3>5, <3>7 DEF EnvInv
  <2> QED BY <2>4, <2>5
<1>23. CASE Fails(s)
  <2>1. Busy(s) /\ Panics(s) /\ UNCHANGED <<local, env>>  BY <1>23, FailsEffect
  <2> QED BY <1>4, <2>1
<1> HIDE DEF EnvInv
<1> QED BY <1>5, <1>6, <1>7, <1>8, <1>9, <1>10, <1>11, <1>12, <1>13, <1>14, <1>15, <1>16, <1>17,
           <1>18, <1>19, <1>20, <1>21, <1>22, <1>23 DEF Step

(* Every step keeps the environment.                                        *)
LEMMA EnvNext ==
  ASSUME Calls, EnvInv, [Next]_vars
  PROVE  EnvInv'
<1>1. ASSUME UNCHANGED <<local, env, calls>>, hist'.crossed = hist.crossed
      PROVE  EnvInv'
  <2>1. \A t \in Slot : (Busy(t)' <=> Busy(t)) /\ calls'[t] = calls[t]  BY <1>1 DEF Busy
  <2>2. \A t \in Slot : Holds(t) => Busy(t)'  BY <2>1 DEF Holds
  <2> QED BY <1>1, <2>1, <2>2, EnvQuiet
<1>2. CASE UNCHANGED vars  BY <1>1, <1>2 DEF vars
<1>3. CASE DayPasses  BY <1>1, <1>3, DayHist DEF DayPasses
<1>4. CASE Crash
  <2>1. /\ env' = InitEnv /\ calls' = [s \in Slot |-> Idle] /\ local' = local
        /\ hist' = [hist EXCEPT !.crossed = FALSE,
                                !.spoiled = @ \cup Cut({s \in Slot : Busy(s)})]
    BY <1>4 DEF Crash
  <2>2. ~hist'.crossed /\ hist'.crossed \in BOOLEAN  BY <2>1 DEF Calls
  <2>3. \A t \in Slot : ~Busy(t)' /\ ~Holds(t)'  BY <2>1 DEF Busy, Holds, Idle
  <2>4. EnvTypes'  BY <2>1, <2>2, CertAssumption DEF EnvTypes, EnvValues
  <2>5. OneHolder'  BY <2>1, <2>3 DEF OneHolder
  <2> QED BY <2>3, <2>4, <2>5 DEF EnvInv
<1>5. CASE Start \/ \E n \in Node : Rebuild(n) \/ Tick(n) \/ TickRebuilt(n)
  <2>1. UNCHANGED <<local, env, hist>>  BY <1>5, MakerSteps
  <2>2. calls' = calls \/ \E n, kind, r : Made(n, kind, r)
    <3> HIDE DEF Made, Building, Acme, Renews
    <3> QED BY <1>5, MakerSteps DEF BuiltBare
  <2>3. ASSUME NEW n, NEW kind, NEW r, Made(n, kind, r)
        PROVE  EnvInv'
    <3>1. PICK s \in Slot : /\ ~Busy(s) /\ \A t \in Slot : t # s => calls'[t] = calls[t]
                            /\ calls'[s] = NewCall(n, kind, r)
      BY <2>3 DEF Made
    <3>2. /\ calls'[s].node = n /\ calls'[s].saved = <<>>
          /\ calls'[s].todo \subseteq DOMAIN Cert(n).DNSEnv
          /\ calls'[s].pc \in {"env", "leave"}
      <4>1. PICK c : c = NewCall(n, kind, r)  OBVIOUS
      <4>2. /\ c.node = n /\ c.saved = <<>> /\ c.todo \subseteq DOMAIN Cert(n).DNSEnv
            /\ c.pc \in {"env", "leave"}
        BY <4>1 DEF NewCall
      <4> QED BY <3>1, <4>1, <4>2
    <3>3. \A t \in Slot : t # s => (Busy(t)' <=> Busy(t)) /\ calls'[t] = calls[t]
      BY <3>1 DEF Busy
    <3>4. Busy(s)'  BY <3>2 DEF Busy
    <3>5. \A t \in Slot : Holds(t) => Busy(t)'  BY <3>3, <3>4 DEF Holds
    <3>6. hist'.crossed = hist.crossed  BY <2>1
    <3> QED BY <2>1, <3>1, <3>2, <3>3, <3>5, <3>6, EnvQuiet
  <2> QED BY <1>1, <2>1, <2>2, <2>3
<1> QED BY <1>2, <1>3, <1>4, <1>5, EnvStep DEF Next

LEMMA InitEnvInv ==
  ASSUME Init
  PROVE  EnvInv
<1>1. /\ env = InitEnv /\ calls = [s \in Slot |-> Idle] /\ hist.crossed = FALSE
  BY DEF Init
<1>2. \A t \in Slot : ~Busy(t) /\ ~Holds(t)  BY <1>1 DEF Busy, Holds, Idle
<1>3. EnvTypes  BY <1>1, CertAssumption DEF EnvTypes, EnvValues
<1>4. OneHolder  BY <1>1, <1>2 DEF OneHolder
<1> QED BY <1>2, <1>3, <1>4 DEF EnvInv

(* The parts of the invariants that make the types.                         *)
LEMMA EnvTypeOK ==
  ASSUME CertInv, RenewInv, EnvInv
  PROVE  TypeOK
<1>1. local \in Locals /\ next \in 1 .. (Len(Order) + 1)  BY DEF CertInv, Calls
<1>2. \A x \in Key : env[x] \in {InitEnv[x]} \cup {Cert(n).DNSEnv[x] :
                        n \in {m \in Node : x \in DOMAIN Cert(m).DNSEnv}}
  BY DEF EnvInv, EnvTypes, EnvValues
<1>3. \A d \in Domain : {crt[d], key[d]} \subseteq Absent..issued /\ days[d] \in 0..Lifetime
  BY DEF CertInv, PairInv, PairTypes, RenewInv, DayTypes, Absent
<1>4. \A e \in Email : {akey[e], acct[e]} \subseteq Absent..keys
  BY DEF CertInv, AccountInv, AccountTypes, Absent
<1>5. due \subseteq Node  BY DEF RenewInv
<1> QED BY <1>1, <1>2, <1>3, <1>4, <1>5 DEF TypeOK

(* The types, those of the environment among them: no cleanup of            *)
(* applyDNSEnv leaves in a variable what neither the process nor a          *)
(* configuration ever put there, crossed or not.                            *)
THEOREM CertificateTypes == Spec => []TypeOK
<1>1. Init => CertInv /\ RenewInv /\ EnvInv  BY InitCertInv, InitRenewInv, InitEnvInv
<1>2. CertInv /\ RenewInv /\ EnvInv /\ [Next]_vars => CertInv' /\ RenewInv' /\ EnvInv'
  BY NextCertInv, RenewNext, EnvNext DEF CertInv
<1>3. CertInv /\ RenewInv /\ EnvInv => TypeOK  BY EnvTypeOK
<1> QED BY <1>1, <1>2, <1>3, PTL DEF Spec

(* The environment is given back on every way out of DNSCert and RenewCert  *)
(* (lego.go:129) when no two calls held variables at once, provided that no *)
(* configuration sets a variable beside one that applyDNSEnv refuses.       *)
THEOREM EnvironmentGivenBack ==
  ASSUME RefusedAlone
  PROVE  Spec => []EnvSound
<1>1. Init => CertInv /\ RenewInv /\ EnvInv  BY InitCertInv, InitRenewInv, InitEnvInv
<1>2. CertInv /\ RenewInv /\ EnvInv /\ [Next]_vars => CertInv' /\ RenewInv' /\ EnvInv'
  BY NextCertInv, RenewNext, EnvNext DEF CertInv
<1>3. CertInv /\ RenewInv /\ EnvInv => EnvSound
  <2> SUFFICES ASSUME CertInv, RenewInv, EnvInv PROVE EnvSound  OBVIOUS
  <2>1. ASSUME ~hist.crossed, \A s \in Slot : ~Holds(s)
        PROVE  env = InitEnv
    <3>1. OneHolder /\ EnvTypes  BY <2>1 DEF EnvInv
    <3>2. \A x \in Key : env[x] = InitEnv[x]  BY <2>1, <3>1 DEF OneHolder
    <3> QED BY <3>1, <3>2, CertAssumption DEF EnvTypes
  <2> QED BY <2>1, EnvTypeOK DEF EnvSound, EnvRestored
<1> QED BY <1>1, <1>2, <1>3, PTL DEF Spec
=============================================================================
