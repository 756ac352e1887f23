---------------------------- MODULE Certificates ----------------------------
(***************************************************************************)
(* Certificates of the nodes (common/legocmd): DNSCert and HTTPCert when   *)
(* an inbound is built, RenewCert on the ticks of nodeInfoMonitor that get *)
(* that far, and lego's run and renew commands behind them, on the files   *)
(* and the process environment they share.  panel.Start builds the nodes   *)
(* one after the other; the monitors of the nodes already up run beside    *)
(* it, and a renewal runs in a goroutine of its own that nobody waits for. *)
(*                                                                         *)
(* A file is Absent, Torn (created or truncated, not yet written) or holds *)
(* a generation; a certificate and a private key belong together when the  *)
(* generations agree.  Time is counted in days, a day has many ticks.      *)
(***************************************************************************)
EXTENDS Settings, SequencesExt

CONSTANTS
    Order,      \* the nodes in the order of NodesConfig
    Locals,     \* local configurations: functions from node to record
    Responses(_), \* what the panel may answer a node with this configuration
    Domain, Email,
    Key,        \* environment variables
    BadKey,     \* those allowedDNSEnvKey refuses
    BadValue,   \* values os.Setenv refuses (with a NUL byte)
    InitEnv,    \* the environment the process starts with
    Slot,       \* bound on the calls under way
    Lifetime,   \* days a new certificate is valid
    RenewDays,  \* --days
    MaxCalls, MaxFaults  \* bounds on the calls made and on faults

ASSUME CertAssumption ==
    /\ Lifetime \in Nat /\ RenewDays \in Nat \ {0} /\ RenewDays < Lifetime
    /\ BadKey \subseteq Key /\ InitEnv = [x \in Key |-> InitEnv[x]]
    /\ Order \in Seq(Range(Order))
    /\ "file" \notin Domain   \* the pair of a node whose files are configured
    /\ \A l \in Locals : \A n \in {m \in Range(Order) : Acme(l[m])} :
          /\ l[n].CertConfig.CertDomain \in Domain
          /\ l[n].CertConfig.Email \in Email
          /\ DOMAIN l[n].CertConfig.DNSEnv \subseteq Key

VARIABLES
    local,      \* the local configurations, fixed
    next,       \* index of the node panel.Start builds next
    resp,       \* response behind each node's inbound
    inbound,    \* each node's inbound, Fail when it has none
    env,        \* the process environment
    crt, key,   \* .crt and .key of each domain
    days,       \* days left to each domain's .crt
    akey, acct, \* account key and account.json (the key it was registered with)
    calls,      \* the calls under way
    issued, keys, \* orders gone through and account keys generated
    made, faults,
    due,        \* nodes whose monitor has rebuilt them and goes on with its tick
    hist        \* what excuses the properties, see below

vars == <<local, next, resp, inbound, env, crt, key, days, akey, acct, calls,
          issued, keys, made, faults, due, hist>>
files == <<crt, key, days, akey, acct, issued, keys>>
nodes == <<next, resp, inbound, due, made>>

Node == Range(Order)
Absent == 0
Torn == 1
Unset == "unset"
Idle == [pc |-> "idle"]

Info(n, r) == ParseUniProxyNodeResponse(local[n], r)
Cert(n) == local[n].CertConfig
Busy(s) == calls[s].pc # "idle"
DomainOf(s) == Cert(calls[s].node).CertDomain
EmailOf(s) == Cert(calls[s].node).Email

(* mutant: only the certificate is looked for *)
checkCertfileCrt(d) == crt[d] # Absent

(* checkCertfile: both files exist, whatever they hold *)
checkCertfile(d) == crt[d] # Absent /\ key[d] # Absent

-----------------------------------------------------------------------------
Init == /\ local \in Locals
        /\ next = 1
        /\ resp = [n \in Node |-> Fail]
        /\ inbound = [n \in Node |-> Fail]
        /\ env = InitEnv
        /\ crt = [d \in Domain |-> Absent] /\ key = crt
        /\ days = [d \in Domain |-> 0]
        /\ akey = [e \in Email |-> Absent] /\ acct = akey
        /\ calls = [s \in Slot |-> Idle]
        /\ issued = Torn /\ keys = Torn /\ made = 0 /\ faults = 0
        /\ due = {}
        /\ hist = [crossed |-> FALSE, raced |-> {}, spoiled |-> {},
                   lapse |-> [d \in Domain |-> RenewDays + 1]]

(* A call of DNSCert or HTTPCert (building a node) or of RenewCert, after  *)
(* validateCertInputs.                                                     *)
NewCall(n, kind, r) ==
    [pc |-> IF Cert(n).Valid THEN "env" ELSE "leave", kind |-> kind, node |-> n,
     resp |-> r, saved |-> <<>>,
     todo |-> IF CertMode(local[n]) = "dns" THEN DOMAIN Cert(n).DNSEnv ELSE {},
     k |-> Absent, reg |-> Absent, cred |-> "own", gen |-> Absent,
     solo |-> FALSE, ok |-> FALSE]

(* The end of a build: the new inbound, or what the node had (bringing it  *)
(* back is Controller's matter) and a tick that is over.                   *)
Built(n, r, cert, kind) ==
    LET b == InboundBuilder(local[n], Info(n, r), cert) IN
    /\ IF b.ok
       THEN inbound' = [inbound EXCEPT ![n] = b] /\ resp' = [resp EXCEPT ![n] = r]
       ELSE UNCHANGED <<inbound, resp>>
    /\ due' = IF b.ok /\ kind = "rebuild" THEN due \cup {n} ELSE due
    /\ next' = IF kind = "start" THEN next + 1 ELSE next

Begin(n, kind, r) ==
    /\ made < MaxCalls
    /\ made' = made + 1
    /\ \E s \in Slot : /\ ~Busy(s)
                       /\ \A t \in Slot : t < s => Busy(t)
                       /\ calls' = [calls EXCEPT ![s] = NewCall(n, kind, r)]

Build(n, r, kind) ==
    IF AsksCertificate(local[n], Info(n, r))
    THEN Begin(n, kind, r) /\ UNCHANGED <<next, resp, inbound, due>>
    ELSE Built(n, r, FALSE, kind) /\ UNCHANGED <<calls, made>>

Building(n, kind) == \E s \in Slot : Busy(s) /\ calls[s].node = n /\ calls[s].kind = kind

(* panel.Start: a node that cannot be started is logged and left out *)
Start == /\ next <= Len(Order)
         /\ ~Building(Order[next], "start")
         /\ \E r \in Responses(local[Order[next]]) :
               IF Info(Order[next], r).ok
               THEN Build(Order[next], r, "start")
               ELSE next' = next + 1 /\ UNCHANGED <<resp, inbound, due, calls, made>>
         /\ UNCHANGED <<local, env, files, faults, hist>>

(* A node whose first build failed has no monitor, and a monitor does one  *)
(* thing at a time.                                                        *)
Up(n) == inbound[n].ok /\ ~Building(n, "rebuild") /\ n \notin due

(* A tick that finds the node changed.                                     *)
Rebuild(n) == /\ Up(n)
              /\ \E r \in Responses(local[n]) \ {resp[n]} : Info(n, r).ok /\ Build(n, r, "rebuild")
              /\ UNCHANGED <<local, env, files, faults, hist>>

(* The gate asks the panel's EnableTLS, not the security the inbound has. *)
Renews(n) == Info(n, resp[n]).EnableTLS /\ Acme(local[n])

(* A tick gets to the gate when node and user list have been fetched and   *)
(* the node has not changed; a closed gate changes nothing.                *)
Tick(n) == /\ Up(n) /\ Renews(n)
           /\ Begin(n, "renew", resp[n])
           /\ UNCHANGED <<local, next, resp, inbound, due, env, files, faults, hist>>

(* Or when it has built the node anew: Rebuild's tick goes on.             *)
TickRebuilt(n) == /\ n \in due
                  /\ due' = due \ {n}
                  /\ IF Renews(n) THEN Begin(n, "renew", resp[n]) ELSE UNCHANGED <<calls, made>>
                  /\ UNCHANGED <<local, next, resp, inbound, env, files, faults, hist>>

-----------------------------------------------------------------------------
(* The steps of a call.  A panic of lego is recovered into an error; the   *)
(* deferred cleanup runs either way.                                       *)

At(s, pc) == calls[s].pc = pc

Goto(s, pc) == calls' = [calls EXCEPT ![s].pc = pc]

(* A save that stops half way, with both files there, leaves a pair nothing *)
(* looks at again until the certificate is due.                             *)
Saving == {"crt1", "key0", "key1"}

Cut(S) == {DomainOf(s) : s \in {t \in S : calls[t].pc \in Saving /\ key[DomainOf(t)] # Absent}}

Left(s, ok) == [calls EXCEPT ![s] = [NewCall(@.node, @.kind, @.resp) EXCEPT
                                        !.pc = "leave", !.todo = {}, !.saved = calls[s].saved,
                                        !.ok = ok]]

Panic(s) == /\ calls' = Left(s, FALSE)
            /\ hist' = [hist EXCEPT !.spoiled = @ \cup Cut({s})]

(* The steps that the CA, the network or the disk can fail, as their error *)
(* returns say; what the step would have changed stays as it is.           *)
Fallible == {"encode", "account", "register", "save", "obtain", "crt0", "crt1", "key0", "key1",
             "recheck"}

Fails(s) == /\ calls[s].pc \in Fallible /\ faults < MaxFaults
            /\ faults' = faults + 1
            /\ Panic(s)
            /\ UNCHANGED <<local, nodes, env, files>>

(* applyDNSEnv, one variable of the map at a time.  When a value cannot be *)
(* set the variables before it are rolled back; a refused name returns     *)
(* without doing so, and those already set stay.                           *)
Holds(s) == Busy(s) /\ calls[s].saved # <<>>

RolledBack(saved) == [x \in Key |-> IF \E p \in Range(saved) : p[1] = x
                                    THEN (CHOOSE p \in Range(saved) : p[1] = x)[2]
                                    ELSE env[x]]

ApplyDNSEnv(s) ==
    /\ At(s, "env")
    /\ \E x \in calls[s].todo :
          IF x \in BadKey \/ Cert(calls[s].node).DNSEnv[x] \in BadValue
          THEN /\ calls' = [Left(s, FALSE) EXCEPT ![s].saved = <<>>]
               /\ env' = IF x \in BadKey THEN env ELSE RolledBack(calls[s].saved)
               /\ UNCHANGED hist
          ELSE /\ calls' = [calls EXCEPT ![s].todo = @ \ {x},
                                         ![s].saved = Append(@, <<x, env[x]>>)]
               /\ env' = [env EXCEPT ![x] = Cert(calls[s].node).DNSEnv[x]]
               /\ hist' = [hist EXCEPT !.crossed = @ \/ \E t \in Slot \ {s} : Holds(t)]
    /\ UNCHANGED <<local, nodes, files, faults>>

(* mutant: the certificate found is returned without the cleanup *)
FirstCheckReturns(s) == LET found == checkCertfile(DomainOf(s)) IN
    /\ At(s, "env") /\ calls[s].todo = {} /\ calls[s].kind # "renew"
    /\ calls' = IF found THEN [Left(s, TRUE) EXCEPT ![s].saved = <<>>]
                ELSE [calls EXCEPT ![s].pc = "key"]
    /\ UNCHANGED <<local, nodes, env, files, faults, hist>>

(* DNSCert and HTTPCert return what is there. *)
FirstCheck(s) == LET found == checkCertfile(DomainOf(s)) IN
    /\ At(s, "env") /\ calls[s].todo = {} /\ calls[s].kind # "renew"
    /\ calls' = IF found THEN Left(s, TRUE) ELSE [calls EXCEPT ![s].pc = "key"]
    /\ UNCHANGED <<local, nodes, env, files, faults, hist>>

(* mutant: a key is generated for every call *)
KeyMissingAlways(e) == TRUE

(* GetPrivateKey looks for the key file, generatePrivateKey creates it and *)
(* then encodes the key into it.                                           *)
KeyMissing(e) == akey[e] = Absent

GetPrivateKey(s) == LET e == EmailOf(s) IN
    /\ At(s, "key") \/ (At(s, "env") /\ calls[s].todo = {} /\ calls[s].kind = "renew")
    /\ CASE KeyMissing(e) ->
              /\ Goto(s, "create")
              /\ hist' = [hist EXCEPT !.raced = IF \E t \in Slot \ {s} : /\ Busy(t) /\ EmailOf(t) = e
                                                                      /\ At(t, "create")
                                                THEN @ \cup {e} ELSE @]
         [] ~KeyMissing(e) /\ akey[e] = Torn -> Panic(s)
         [] OTHER -> /\ calls' = [calls EXCEPT ![s].pc = "account", ![s].k = akey[e]]
                     /\ UNCHANGED hist
    /\ UNCHANGED <<local, nodes, env, files, faults>>

CreateKeyFile(s) ==
    /\ At(s, "create")
    /\ keys' = keys + 1
    /\ akey' = [akey EXCEPT ![EmailOf(s)] = Torn]
    /\ calls' = [calls EXCEPT ![s].pc = "encode", ![s].k = keys + 1]
    /\ UNCHANGED <<local, nodes, env, crt, key, days, acct, issued, faults, hist>>

EncodeKey(s) ==
    /\ At(s, "encode")
    /\ akey' = [akey EXCEPT ![EmailOf(s)] = calls[s].k]
    /\ Goto(s, "account")
    /\ UNCHANGED <<local, nodes, env, crt, key, days, acct, issued, keys, faults, hist>>

(* account.json: absent, unreadable, or the registration it holds *)
AccountFile(e) == acct[e]

(* setup: the account, and the client, for which the CA's directory is     *)
(* fetched.                                                                *)
LoadAccount(s) == LET a == AccountFile(EmailOf(s)) IN
    /\ At(s, "account")
    /\ IF a = Torn THEN Panic(s)
       ELSE calls' = [calls EXCEPT ![s].pc = "provider", ![s].reg = a] /\ UNCHANGED hist
    /\ UNCHANGED <<local, nodes, env, files, faults>>

(* setupChallenges: the DNS provider takes its credentials from the        *)
(* environment as it is now.  Only run registers an account.               *)
Credentials(n) == LET vs == Cert(n).DNSEnv IN
    IF CertMode(local[n]) # "dns" \/ \A x \in DOMAIN vs : env[x] = vs[x] THEN "own"
    ELSE IF \E x \in DOMAIN vs : env[x] = Unset THEN "none" ELSE "other"

SetupChallenges(s) == LET c == calls[s]
                          cred == Credentials(c.node) IN
    /\ At(s, "provider")
    /\ IF cred = "none" \/ (c.kind = "renew" /\ c.reg = Absent) THEN Panic(s)
       ELSE /\ calls' = [calls EXCEPT ![s].cred = cred,
                             ![s].pc = CASE c.kind = "renew" -> "renew"
                                         [] c.kind # "renew" /\ c.reg = Absent -> "register"
                                         [] OTHER -> "obtain"]
            /\ UNCHANGED hist
    /\ UNCHANGED <<local, nodes, env, files, faults>>

(* register, then Save opens account.json *)
Register(s) ==
    /\ At(s, "register")
    /\ acct' = [acct EXCEPT ![EmailOf(s)] = Torn]
    /\ calls' = [calls EXCEPT ![s].pc = "save", ![s].reg = calls[s].k]
    /\ UNCHANGED <<local, nodes, env, crt, key, days, akey, issued, keys, faults, hist>>

SaveAccount(s) ==
    /\ At(s, "save")
    /\ acct' = [acct EXCEPT ![EmailOf(s)] = calls[s].reg]
    /\ Goto(s, "obtain")
    /\ UNCHANGED <<local, nodes, env, crt, key, days, akey, issued, keys, faults, hist>>

(* mutant: a certificate with exactly --days left is kept *)
needRenewalLate(d) == ~(days[d] >= RenewDays)

(* needRenewal *)
needRenewal(d) == ~(days[d] > RenewDays)

RenewForDomains(s) == LET d == DomainOf(s) IN
    /\ At(s, "renew")
    /\ IF crt[d] \in {Absent, Torn} THEN Panic(s)
       ELSE /\ calls' = IF needRenewal(d) THEN [calls EXCEPT ![s].pc = "obtain"]
                        ELSE Left(s, TRUE)
            /\ UNCHANGED hist
    /\ UNCHANGED <<local, nodes, env, files, faults>>

(* The CA: an order goes through only with the account's own key and the   *)
(* credentials of the domain's own zone.                                   *)
Obtain(s) ==
    /\ At(s, "obtain")
    /\ IF calls[s].cred = "own" /\ calls[s].reg = calls[s].k
       THEN /\ issued' = issued + 1
            /\ calls' = [calls EXCEPT ![s].pc = "crt0", ![s].gen = issued + 1]
            /\ UNCHANGED hist
       ELSE Panic(s) /\ UNCHANGED issued
    /\ UNCHANGED <<local, nodes, env, crt, key, days, akey, acct, keys, faults>>

(* SaveResource: the certificate, its issuer, the key and the metadata in  *)
(* this order, each by os.WriteFile, which truncates before it writes.     *)
Savers(d) == {t \in Slot : Busy(t) /\ calls[t].pc \in Saving /\ DomainOf(t) = d}

TruncateCrt(s) == LET d == DomainOf(s) IN
    /\ At(s, "crt0")
    /\ crt' = [crt EXCEPT ![d] = Torn]
    /\ calls' = [t \in Slot |->
                   IF t = s THEN [calls[s] EXCEPT !.pc = "crt1", !.solo = Savers(d) = {}]
                   ELSE IF t \in Savers(d) THEN [calls[t] EXCEPT !.solo = FALSE]
                   ELSE calls[t]]
    /\ hist' = IF Savers(d) = {} THEN hist ELSE [hist EXCEPT !.spoiled = @ \cup {d}]
    /\ UNCHANGED <<local, nodes, env, key, days, akey, acct, issued, keys, faults>>

WriteCrt(s) ==
    /\ At(s, "crt1")
    /\ crt' = [crt EXCEPT ![DomainOf(s)] = calls[s].gen]
    /\ days' = [days EXCEPT ![DomainOf(s)] = Lifetime]
    /\ Goto(s, "key0")
    /\ UNCHANGED <<local, nodes, env, key, akey, acct, issued, keys, faults, hist>>

TruncateKey(s) ==
    /\ At(s, "key0")
    /\ key' = [key EXCEPT ![DomainOf(s)] = Torn]
    /\ Goto(s, "key1")
    /\ UNCHANGED <<local, nodes, env, crt, days, akey, acct, issued, keys, faults, hist>>

WriteKey(s) == LET d == DomainOf(s) IN
    /\ At(s, "key1")
    /\ key' = [key EXCEPT ![d] = calls[s].gen]
    /\ Goto(s, "recheck")
    /\ hist' = IF calls[s].solo THEN [hist EXCEPT !.spoiled = @ \ {d}] ELSE hist
    /\ UNCHANGED <<local, nodes, env, crt, days, akey, acct, issued, keys, faults>>

(* The metadata are written, and DNSCert looks at the files once more. *)
LastCheck(s) == /\ At(s, "recheck")
                /\ calls' = Left(s, checkCertfile(DomainOf(s)))
                /\ UNCHANGED <<local, nodes, env, files, faults, hist>>

(* mutant: a variable that was not set is left empty *)
RestoredEmpty(p) == [env EXCEPT ![p[1]] = IF p[2] = Unset THEN "" ELSE p[2]]

(* The cleanup of applyDNSEnv, last variable first. *)
Restored(p) == [env EXCEPT ![p[1]] = p[2]]

Cleanup(s) == /\ At(s, "leave") /\ calls[s].saved # <<>>
              /\ env' = Restored(Last(calls[s].saved))
              /\ calls' = [calls EXCEPT ![s].saved = Front(@)]
              /\ UNCHANGED <<local, nodes, files, faults, hist>>

Return(s) == LET c == calls[s] IN
    /\ At(s, "leave") /\ c.saved = <<>>
    /\ calls' = [calls EXCEPT ![s] = Idle]
    /\ IF c.kind = "renew"
       THEN UNCHANGED <<next, resp, inbound, due>>
       ELSE Built(c.node, c.resp, c.ok, c.kind)
    /\ hist' = [hist EXCEPT !.crossed = @ /\ (env # InitEnv \/ \E t \in Slot : Holds(t)),
                            !.lapse = IF c.kind = "renew" /\ c.ok
                                      THEN [@ EXCEPT ![DomainOf(s)] = 0] ELSE @]
    /\ UNCHANGED <<local, env, files, made, faults>>

-----------------------------------------------------------------------------
(* A call ends on the day it was made.  Nobody sees to it that a tick of    *)
(* the day gets to the gate: nodeInfoMonitor returns before when the panel  *)
(* is silent or when a change cannot be built.                              *)
DayPasses ==
    /\ \A s \in Slot : ~Busy(s)
    /\ days' = [d \in Domain |-> IF days[d] = 0 THEN 0 ELSE days[d] - 1]
    /\ days' # days
    /\ hist' = [hist EXCEPT !.lapse = [d \in Domain |-> IF @[d] > RenewDays THEN @[d] ELSE @[d] + 1]]
    /\ UNCHANGED <<local, nodes, env, crt, key, akey, acct, calls, issued, keys, faults>>

(* The process dies and is started again: the files stay. *)
Crash == /\ faults < MaxFaults
         /\ faults' = faults + 1
         /\ next' = 1
         /\ resp' = [n \in Node |-> Fail] /\ inbound' = resp'
         /\ env' = InitEnv
         /\ calls' = [s \in Slot |-> Idle]
         /\ due' = {}
         /\ hist' = [hist EXCEPT !.crossed = FALSE,
                        !.spoiled = @ \cup Cut({s \in Slot : Busy(s)})]
         /\ UNCHANGED <<local, files, made>>

Step(s) ==
    \/ ApplyDNSEnv(s) \/ FirstCheck(s) \/ GetPrivateKey(s) \/ CreateKeyFile(s) \/ EncodeKey(s)
    \/ LoadAccount(s) \/ SetupChallenges(s) \/ Register(s) \/ SaveAccount(s)
    \/ RenewForDomains(s) \/ Obtain(s) \/ TruncateCrt(s) \/ WriteCrt(s)
    \/ TruncateKey(s) \/ WriteKey(s) \/ LastCheck(s) \/ Cleanup(s) \/ Return(s) \/ Fails(s)

Next == \/ Start \/ DayPasses \/ Crash
        \/ \E n \in Node : Rebuild(n) \/ Tick(n) \/ TickRebuilt(n)
        \/ \E s \in Slot : Step(s)

Spec == Init /\ [][Next]_vars

-----------------------------------------------------------------------------
(* Types; in particular a variable of the environment is never left empty  *)
(* by applyDNSEnv's cleanup.                                               *)
TypeOK ==
    /\ local \in Locals /\ next \in 1..(Len(Order) + 1)
    /\ \A x \in Key : env[x] \in {InitEnv[x]} \cup {Cert(n).DNSEnv[x] :
                          n \in {m \in Node : x \in DOMAIN Cert(m).DNSEnv}}
    /\ \A d \in Domain : {crt[d], key[d]} \subseteq Absent..issued /\ days[d] \in 0..Lifetime
    /\ \A e \in Email : {akey[e], acct[e]} \subseteq Absent..keys
    /\ due \subseteq Node

(* A node that serves a certificate of its own finds certificate and key   *)
(* of one order on disk, whenever nobody is writing them: an order cut     *)
(* between the two files is done again when the node is next built, since  *)
(* checkCertfile (lego.go:302) wants both.  Excused are saves that were    *)
(* cut when both files existed, or that overlapped, until a save of that   *)
(* domain has run alone.                                                   *)
Serves(n, d) == /\ inbound[n].ok
                /\ inbound[n].stream.Security = "tls"
                /\ inbound[n].stream.settings.pair = d

ServedPairMatches ==
    \A n \in Node, d \in Domain :
        Serves(n, d) /\ Savers(d) = {} /\ d \notin hist.spoiled
            => crt[d] = key[d] /\ crt[d] > Torn

(* The environment is what it was before the first call, on every way out  *)
(* of DNSCert and RenewCert (lego.go:129), when no call holds variables    *)
(* and no two calls held them at once; provided that a configuration with  *)
(* a name that applyDNSEnv refuses has no other, see README.               *)
RefusedAlone ==
    \A l \in Locals : \A n \in Node : Acme(l[n]) =>
        \/ DOMAIN l[n].CertConfig.DNSEnv \subseteq BadKey
        \/ DOMAIN l[n].CertConfig.DNSEnv \cap BadKey = {}

EnvRestored ==
    ~hist.crossed /\ (\A s \in Slot : ~Holds(s)) => env = InitEnv

(* The types hold, the environment's among them, and the calls give the     *)
(* environment back (applyDNSEnv).                                          *)
EnvSound == TypeOK /\ EnvRestored

(* account.json belongs to the account key beside it: run registers with   *)
(* the key it has loaded and a key is generated only when there is none    *)
(* (accounts_storage.go:157), unless the key was generated while another   *)
(* call used the same account.                                             *)
AccountMatchesKey ==
    \A e \in Email : e \notin hist.raced /\ acct[e] > Torn => acct[e] = akey[e]

(* Certificates and accounts belong to the keys beside them.                *)
KeysMatch == ServedPairMatches /\ AccountMatchesKey

(* A renewal that went well is good for --days days: a certificate that is  *)
(* served runs out only when no renewal of its domain has gone well for     *)
(* longer (needRenewal, cmd_renew.go:194), because its ticks did not get to *)
(* the renewal, the gate was closed, or the renewals failed.                *)
ServedCertRenewed ==
    \A n \in Node, d \in Domain :
        Serves(n, d) /\ hist.lapse[d] <= RenewDays => days[d] > 0

(* Whatever the panel answers, what a node with a full local configuration *)
(* serves does not change, the port aside (inboundbuilder.go:123).         *)
FullyLocal(l) == /\ l.Transport # Blank /\ l.Security \in {"tls", "none"}
                 /\ l.Vision \in {"on", "off"} /\ l.VlessDecryption # Blank

SamePort(b) == [b EXCEPT !.port = 0]

LocalDrives == [][\A n \in Node :
                     FullyLocal(local[n]) /\ inbound[n].ok /\ inbound'[n].ok
                         => SamePort(inbound'[n]) = SamePort(inbound[n])]_vars

-----------------------------------------------------------------------------
(* Promises of the code that do not hold, see README. *)

(* lego.go:129 "Returns a cleanup function that restores previous values": *)
(* two calls at once restore each other's credentials, and a refused       *)
(* variable leaves those set before it.                                    *)
EnvAlwaysRestored == (\A s \in Slot : ~Holds(s)) => env = InitEnv

(* controller.go:247 "fire asynchronously": without any fault, two         *)
(* renewals of one node save over each other and leave a certificate and a *)
(* key that do not belong together, until the next renewal is due.         *)
PairAlwaysMatches == faults = 0 => \A n \in Node, d \in Domain :
                        Serves(n, d) /\ Savers(d) = {} => crt[d] = key[d]

(* inboundbuilder.go:123 "Local ControllerConfig can fully drive TLS": a   *)
(* certificate served by the local Security is renewed only while the      *)
(* panel's own field says TLS.                                             *)
LocalTlsRenewed == \A n \in Node, d \in Domain : Serves(n, d) => Renews(n)

(* ARCHITECTURE.md:400 "RenewCert()": renewed by the timer.  Without any   *)
(* failure of CA, network or disk, a certificate that the gate lets renew  *)
(* runs out while the panel is silent or sends a node that cannot be built.*)
RenewedByTimer == \A n \in Node, d \in Domain :
                     Serves(n, d) /\ Renews(n) /\ faults = 0 => days[d] > 0
=============================================================================
