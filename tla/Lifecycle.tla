----------------------------- MODULE Lifecycle -----------------------------
(***************************************************************************)
(* The process: start, crash and restart, the hot reload when the config   *)
(* file changes (cmd, panel), and the certificate its nodes share (mylego, *)
(* getCertFile, certMonitor). The nodes of a process that serve the same   *)
(* domain obtain, renew and load one pair of files, each in goroutines of  *)
(* its own, and a reload does not wait for a certificate pass in progress. *)
(*                                                                         *)
(* The part of the configuration that changes is the account's email.      *)
(* Pairs of one certificate and its key are told apart by a number. What   *)
(* nodes do besides is the matter of the other modules.                    *)
(***************************************************************************)
EXTENDS Naturals, FiniteSets

CONSTANTS
  Nodes, Emails,
  Life, Margin,   \* a certificate's life and the days left to renew it, in certMonitor periods
  None, Torn,     \* no file, a file whose writing was cut short
  MaxFaults, MaxCrashes, MaxEdits   \* bounds for model checking

ASSUME LifecycleAssumption ==
  /\ Life \in Nat /\ Margin \in Nat /\ Margin < Life /\ IsFiniteSet(Nodes)
  /\ MaxFaults \in Nat /\ MaxCrashes \in Nat /\ MaxEdits \in Nat
  /\ None \notin Nat /\ Torn \notin Nat /\ None # Torn

VARIABLES
  phase,         \* of the process: down, starting or up
  todo,          \* nodes Panel.Start has still to start
  edited, email, \* the email in the config file, and in panelConfig
  event, recent, \* a change of the file is to be handled; one was less than 3 s ago
  crt, key,      \* the pair on disk
  left,          \* periods until the certificate in .crt expires
  missed,        \* history: periods since it was written (Margin at most) in which
                 \* every node has tried to renew it and failed
  accKey, account, \* the files of each email's account
  pass,          \* what goroutines do about the certificate
  done,          \* nodes whose certMonitor has run in this period
  failed,        \* history: and came to its end with an error
  faults, crashes, edits,   \* budgets spent
  skipped,       \* history: an event was discarded since the configuration was read
  overlapped,    \* history: two savings of a pair have overlapped
  cut            \* history: the process ended within one

config == <<edited, email, event, recent, skipped>>
process == <<phase, todo, done, failed>>
pair == <<crt, key, left, missed>>
accounts == <<accKey, account>>
budgets == <<faults, crashes, edits>>
vars == <<config, process, pair, accounts, pass, budgets, overlapped, cut>>

\* The goroutines of a node's controller, and of the one before the last reload.
Workers == Nodes \X {"new", "old"}
Steps == {"account", "encode", "register", "save", "check", "obtain", "writeCrt", "writeKey", "load"}
Ids == 1..2 + Cardinality(Workers)
Pass == [starts : BOOLEAN, at : Steps, email : Emails, id : Ids \cup {None}]
File == {None, Torn, "ok"}

ASSUME NoneAssumption == None \notin Pass

TypeOK ==
  /\ phase \in {"down", "start", "up"} /\ todo \subseteq Nodes
  /\ done \subseteq Nodes /\ failed \subseteq Nodes
  /\ phase # "start" => todo = {}
  /\ edited \in Emails /\ email \in Emails
  /\ event \in BOOLEAN /\ recent \in BOOLEAN /\ skipped \in BOOLEAN
  /\ crt \in Ids \cup {None, Torn} /\ key \in Ids \cup {None, Torn} /\ left \in 0..Life
  /\ missed \in 0..Margin /\ accKey \in [Emails -> File] /\ account \in [Emails -> File]
  /\ pass \in [Workers -> Pass \cup {None}]
  /\ faults \in 0..MaxFaults /\ crashes \in 0..MaxCrashes /\ edits \in 0..MaxEdits
  /\ overlapped \in BOOLEAN /\ cut \in BOOLEAN

Init ==
  /\ phase = "down" /\ todo = {} /\ done = {} /\ failed = {}
  /\ edited \in Emails /\ email = edited /\ event = FALSE /\ recent = FALSE /\ skipped = FALSE
  /\ crt = None /\ key = None /\ left = 0 /\ missed = 0
  /\ accKey = [e \in Emails |-> None] /\ account = accKey
  /\ pass = [w \in Workers |-> None]
  /\ faults = 0 /\ crashes = 0 /\ edits = 0 /\ overlapped = FALSE /\ cut = FALSE
-----------------------------------------------------------------------------
(* The process.                                                            *)

At(w, l) == pass[w] # None /\ pass[w].at = l
Idle(w) == pass[w] = None
CertOnly == UNCHANGED <<pair, accounts, overlapped, cut>>

\* run: the configuration is read and the panel started.
Boot ==
  /\ phase = "down" /\ phase' = "start" /\ todo' = Nodes /\ done' = {} /\ failed' = {}
  /\ email' = edited /\ event' = FALSE /\ recent' = TRUE /\ skipped' = FALSE
  /\ UNCHANGED <<edited, pass, budgets>> /\ CertOnly

\* A process that ends takes its goroutines along and may leave behind half of
\* any file one of them was writing. It is started again (Restart=always).
End ==
  LET half(l) == {w \in Workers : At(w, l)}
  IN /\ phase' = "down" /\ todo' = {} /\ done' = {} /\ failed' = {}
     /\ pass' = [w \in Workers |-> None]
     /\ crt' \in IF half("writeCrt") = {} THEN {crt} ELSE {crt, Torn}
     /\ key' \in IF half("writeKey") = {} THEN {key} ELSE {key, Torn}
     /\ \E es \in SUBSET {pass[w].email : w \in half("save")} :
          account' = [e \in Emails |-> IF e \in es THEN Torn ELSE account[e]]
     /\ cut' = (cut \/ half("writeCrt") \cup half("writeKey") # {})
     /\ UNCHANGED <<config, left, missed, accKey, edits, overlapped>>

Crash ==
  /\ phase # "down" /\ crashes < MaxCrashes /\ crashes' = crashes + 1
  /\ UNCHANGED faults /\ End

Edit ==
  /\ edits < MaxEdits /\ edits' = edits + 1 /\ edited' \in Emails \ {edited}
  /\ event' = (phase # "down")
  /\ UNCHANGED <<email, recent, skipped, process, pass, faults, crashes>> /\ CertOnly

\* "Discarding event received within a short period of time after receiving an
\* event."
Discard ==
  /\ phase = "up" /\ event /\ recent /\ event' = FALSE /\ skipped' = TRUE
  /\ UNCHANGED <<edited, email, recent, process, pass, budgets>> /\ CertOnly
Calm ==
  /\ recent /\ recent' = FALSE
  /\ UNCHANGED <<edited, email, event, skipped, process, pass, budgets>> /\ CertOnly

\* Faulty variant: the panel starts again with the configuration it had.
UnmarshalNothing == email
Unmarshal == edited

\* Close stops the tasks, not a pass in progress; then the file is read into
\* panelConfig and the panel started again. One pass of a closed controller
\* of each node is followed.
Reload ==
  /\ phase = "up" /\ event /\ ~recent /\ event' = FALSE
  /\ \A n \in Nodes : Idle(<<n, "new">>) \/ Idle(<<n, "old">>)
  /\ pass' = [w \in Workers |->
       IF w[2] = "new" THEN None
       ELSE IF Idle(w) THEN pass[<<w[1], "new">>] ELSE pass[w]]
  /\ phase' = "start" /\ todo' = Nodes /\ done' = {} /\ failed' = {}
  /\ email' = Unmarshal /\ skipped' = FALSE
  /\ UNCHANGED <<edited, recent, budgets>> /\ CertOnly

\* Faulty variant: Start returns before the services have started.
StartedEarly ==
  /\ phase = "start" /\ phase' = "up" /\ recent' = TRUE
  /\ UNCHANGED <<edited, email, event, skipped, todo, done, failed, pass, budgets>> /\ CertOnly
\* All services are started. The moment is noted (on the first start, a little
\* earlier).
Started ==
  /\ phase = "start" /\ todo = {} /\ phase' = "up" /\ recent' = TRUE
  /\ UNCHANGED <<edited, email, event, skipped, todo, done, failed, pass, budgets>> /\ CertOnly

\* Time passes: every certMonitor has run in the period and come to its end.
Tick ==
  /\ phase = "up" /\ done = Nodes /\ \A w \in Workers : Idle(w)
  /\ done' = {} /\ failed' = {} /\ left' = IF left = 0 THEN 0 ELSE left - 1
  /\ missed' = IF failed = Nodes /\ missed < Margin THEN missed + 1 ELSE missed
  /\ UNCHANGED <<config, phase, todo, crt, key, accounts, pass, budgets, overlapped, cut>>
-----------------------------------------------------------------------------
(* What the goroutine of a node does about the certificate.                *)

Begin(w, starts, l) ==
  pass' = [pass EXCEPT ![w] = [starts |-> starts, at |-> l, email |-> email, id |-> None]]
Goto(w, l) == pass' = [pass EXCEPT ![w].at = l]
Done(w) == pass' = [pass EXCEPT ![w] = None]
WorkOnly == UNCHANGED <<config, process, crashes, edits, cut>>

\* Faulty variant: only the certificate is looked for.
CrtExists == crt # None
\* checkCertFile looks for the files, not into them.
PairExists == crt # None /\ key # None

\* getCertFile of a node; Panel.Start starts one after the other.
StartNode(n) ==
  /\ phase = "start" /\ n \in todo
  /\ \A m \in todo : Idle(<<m, "new">>)
  /\ Begin(<<n, "new">>, TRUE, IF PairExists THEN "load" ELSE "account")
  /\ UNCHANGED <<config, process, budgets>> /\ CertOnly

\* certMonitor of a node that has started, at once and then every period.
StartMonitor(n) ==
  /\ phase # "down" /\ n \notin todo \cup done /\ Idle(<<n, "new">>)
  /\ done' = done \cup {n} /\ Begin(<<n, "new">>, FALSE, "account")
  /\ UNCHANGED <<config, phase, todo, failed, budgets>> /\ CertOnly

\* An error of Start ends the process, certMonitor only logs it.
Fail(w) ==
  IF pass[w].starts THEN End /\ UNCHANGED crashes
  ELSE /\ Done(w) /\ failed' = IF w[2] = "new" THEN failed \cup {w[1]} ELSE failed
       /\ UNCHANGED <<config, phase, todo, done, crashes, edits, pair, accounts, overlapped, cut>>

\* GetPrivateKey: a new account's file is created, and the key is written later.
MakeKey(w) ==
  /\ At(w, "account") /\ accKey[pass[w].email] = None
  /\ accKey' = [accKey EXCEPT ![pass[w].email] = Torn] /\ Goto(w, "encode")
  /\ UNCHANGED <<pair, account, faults, overlapped>> /\ WorkOnly
Encode(w) ==
  /\ At(w, "encode")
  /\ accKey' = [accKey EXCEPT ![pass[w].email] = "ok"] /\ Goto(w, "account")
  /\ UNCHANGED <<pair, account, faults, overlapped>> /\ WorkOnly

\* The account's files are read. Run registers an account if there is none,
\* Renew does not. Half a file is an error.
LoadAccount(w) ==
  /\ At(w, "account") /\ accKey[pass[w].email] # None
  /\ LET e == pass[w].email
         new == account[e] = None /\ pass[w].starts
     IN IF accKey[e] = "ok" /\ (account[e] = "ok" \/ new)
          THEN /\ Goto(w, IF new THEN "register" ELSE IF pass[w].starts THEN "obtain" ELSE "check")
               /\ UNCHANGED <<pair, accounts, overlapped>> /\ WorkOnly
          ELSE Fail(w)
  /\ UNCHANGED faults

\* The CA registers the account and issues certificates, or does not.
Register(w) ==
  /\ At(w, "register") /\ Goto(w, "save")
  /\ UNCHANGED <<pair, accounts, faults, overlapped>> /\ WorkOnly
Save(w) ==
  /\ At(w, "save")
  /\ account' = [account EXCEPT ![pass[w].email] = "ok"] /\ Goto(w, "obtain")
  /\ UNCHANGED <<pair, accKey, faults, overlapped>> /\ WorkOnly
Refuse(w) ==
  /\ At(w, "register") \/ At(w, "obtain")
  /\ faults < MaxFaults /\ faults' = faults + 1 /\ Fail(w)

\* Faulty variant: renewal waits for the certificate to expire.
ExpiredOnly(periods) == periods = 0
NeedRenewal(periods) == periods <= Margin

\* Renew reads the certificate on disk.
Check(w) ==
  /\ At(w, "check")
  /\ IF crt \in Ids /\ NeedRenewal(left) THEN Goto(w, "obtain") ELSE Done(w)
  /\ UNCHANGED <<pair, accounts, faults, overlapped>> /\ WorkOnly

\* A certificate for a new key, with a number no other has.
Obtain(w) ==
  /\ At(w, "obtain")
  /\ LET unused == Ids \ ({crt, key} \cup {pass[v].id : v \in {x \in Workers : ~Idle(x)}})
     IN pass' = [pass EXCEPT ![w] =
          [@ EXCEPT !.at = "writeCrt", !.id = CHOOSE i \in unused : TRUE]]
  /\ UNCHANGED <<pair, accounts, faults, overlapped>> /\ WorkOnly

\* SaveResource: .crt, the issuer's, .key, and metadata nobody reads.
WriteCrt(w) ==
  /\ At(w, "writeCrt") /\ crt' = pass[w].id /\ left' = Life /\ missed' = 0
  /\ Goto(w, "writeKey")
  /\ overlapped' = (overlapped \/ \E v \in Workers : At(v, "writeKey"))
  /\ UNCHANGED <<key, accounts, faults>> /\ WorkOnly
\* Faulty variant: a key that is there is kept.
KeepKey(w) ==
  /\ At(w, "writeKey") /\ key' = IF key = None THEN pass[w].id ELSE key
  /\ IF pass[w].starts THEN Goto(w, "load") ELSE Done(w)
  /\ UNCHANGED <<crt, left, missed, accounts, faults, overlapped>> /\ WorkOnly
WriteKey(w) ==
  /\ At(w, "writeKey") /\ key' = pass[w].id
  /\ IF pass[w].starts THEN Goto(w, "load") ELSE Done(w)
  /\ UNCHANGED <<crt, left, missed, accounts, faults, overlapped>> /\ WorkOnly

\* The inbound is built from the two files, which must belong together.
Load(w) ==
  /\ At(w, "load")
  /\ IF crt \in Ids /\ key = crt
       THEN /\ Done(w) /\ todo' = todo \ {w[1]}
            /\ UNCHANGED <<config, phase, done, failed, crashes, edits, pair, accounts, overlapped, cut>>
       ELSE Fail(w)
  /\ UNCHANGED faults

Work(w) ==
  \/ MakeKey(w) \/ Encode(w) \/ LoadAccount(w) \/ Register(w) \/ Save(w)
  \/ Check(w) \/ Obtain(w) \/ WriteCrt(w) \/ WriteKey(w) \/ Load(w)

Next ==
  \/ Boot \/ Crash \/ Edit \/ Discard \/ Calm \/ Reload \/ Started \/ Tick
  \/ \E n \in Nodes : StartNode(n) \/ StartMonitor(n)
  \/ \E w \in Workers : Work(w) \/ Refuse(w)

\* The process is restarted, and goroutines run.
Fairness ==
  /\ WF_vars(Boot) /\ WF_vars(Started)
  /\ \A n \in Nodes : WF_vars(StartNode(n))
  /\ \A w \in Workers : WF_vars(Work(w))
Spec == Init /\ [][Next]_vars /\ Fairness
-----------------------------------------------------------------------------
\* Certificate and key on disk belong together, between savings, unless two
\* savings have overlapped or one was cut short ("We store the certificate,
\* private key and metadata in different files").
PairMatches ==
  ~overlapped /\ ~cut /\ (\A w \in Workers : ~At(w, "writeKey")) => crt = key

\* While the process runs the certificate does not expire, whatever crashes,
\* reloads and edits came in between, unless in as many periods as the margin
\* has every node tried to renew it and failed: refused by the CA, or without a
\* registered account, which only a start that finds no certificate registers.
Unexpired == crt \in Ids /\ left = 0 => missed = Margin

\* A change of the config file is in force as soon as no event is pending,
\* unless one came within three seconds of a reload.
ConfigApplied == phase = "up" /\ ~event => email = edited \/ skipped

\* Files no start gets past.
Damaged ==
  IF crt # None /\ key # None THEN crt # key \/ crt = Torn ELSE accKey[edited] = Torn \/ account[edited] = Torn
\* Whatever a crash cuts short, the process comes up again, unless it left half
\* a file or a new certificate with the old key.
ComesUp == []<>(phase = "up") \/ <>[]Damaged
=============================================================================
