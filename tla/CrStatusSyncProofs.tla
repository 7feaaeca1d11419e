-------------------------- MODULE CrStatusSyncProofs --------------------------
(***************************************************************************)
(* Proofs about CrStatusSync for any change requests, authorizations, and  *)
(* number of recovering processes and faults, when one process at a time   *)
(* synchronises.  (CheckUnresolved is not repeated under the lock, so two  *)
(* synchronising processes can leave two unresolved transactions, and with *)
(* three faults an index that shows a change request its record does not.) *)
(***************************************************************************)
EXTENDS CrStatusSync, TLAPS

-----------------------------------------------------------------------------
\* One process synchronises; any number of processes recover.
OneSynchroniser == \A p, q \in Proc : Task[p] # {} /\ Task[q] # {} => p = q

Early == {"prepare", "vlock", "validate", "state"}
Waiting == {"check", "lock", "compensate"}
Writing == {"next", "receipt", "remove", "rollback", "discard", "committed", "blocked", "end"}
Admitted == {"journal"} \union Writing
Synchronising == Early \union Waiting \union {"admit"} \union Admitted
Recovering == {"resume", "undo", "resuming", "undoing", "leave"}
Holding == {"validate", "admit"} \union Admitted \union Recovering

Seen == [file : Images(Ref), state : SUBSET Cr, both : BOOLEAN]

TypeOK ==
  /\ file \in Images(Ref) /\ state \subseteq Cr
  /\ journal \in [Auth -> Manifests \union {None, Torn}]
  /\ claimed \subseteq Auth
  /\ lock \in Proc \union {None, Left}
  /\ pc \in [Proc -> Synchronising \union Recovering \union {"idle"}]
  /\ job \in [Proc -> Auth \union {None}]
  /\ plan \in [Proc -> Seen]
  /\ applied \in [Proc -> SUBSET Ref] /\ todo \in [Proc -> SUBSET Ref]
  /\ failed \in [Proc -> BOOLEAN]
  /\ apart \subseteq Cr /\ overrun \subseteq Cr

\* What a process has at each place.
Duty(p) ==
  /\ pc[p] # "idle" => job[p] \in Auth
  /\ pc[p] \in Synchronising => Task[p] # {}
  /\ pc[p] \in Holding => lock = p
  /\ pc[p] \notin Writing \ {"blocked"} => applied[p] = {}
  /\ pc[p] \notin (Writing \ {"discard", "blocked"}) \union Recovering => todo[p] = {} /\ ~failed[p]

Employed == \A p \in Proc : Duty(p)

NoTransaction == \A a \in Auth : ~Exists(a)

\* At most one transaction is unresolved.
Single ==
  /\ \A a, b \in Auth : Exists(a) /\ Exists(b) => a = b
  /\ \A p \in Proc :
       /\ pc[p] \in {"lock", "admit", "journal"} => NoTransaction
       /\ pc[p] \in Writing => \A a \in Auth : Exists(a) => a = job[p]

-----------------------------------------------------------------------------
Mine(p) == Manifest(plan[p], CrOf[job[p]])

\* A file of the generation before a transaction, and of the one after it.
Old(m, r) == IF r \in DOMAIN m.before THEN m.before[r] ELSE file[r]
New(m, r) == IF r \in DOMAIN m.before THEN m.after[r] ELSE file[r]
AllOld(m) == \A r \in DOMAIN m.before : file[r] = m.before[r]
AllNew(m) == \A r \in DOMAIN m.before : file[r] = m.after[r]

Agree == \A c \in Cr \ overrun : c \in file[Index] <=> c \in file[c]

\* The files are in one of the two generations, in both of which the index is right.
Sound(m, c) ==
  /\ m \in Manifests /\ DOMAIN m.before \subseteq {c, Index}
  /\ \A r \in DOMAIN m.before : file[r] \in {m.before[r], m.after[r]}
  /\ \A d \in Cr \ overrun : /\ d \in Old(m, Index) <=> d \in Old(m, d)
                             /\ d \in New(m, Index) <=> d \in New(m, d)

Whole ==
  /\ NoTransaction => Agree
  /\ \A a \in Auth : Readable(a) => Sound(journal[a], CrOf[a])
  /\ \A p \in Proc : pc[p] \in Admitted => Sound(Mine(p), CrOf[job[p]])

\* Where a transaction is.
Progress(p) ==
  LET m == Mine(p)
      T == DOMAIN m.before
      on == journal[job[p]]
  IN /\ pc[p] = "journal" => AllOld(m)
     /\ pc[p] \in {"next", "receipt", "remove"} =>
          /\ on = m /\ todo[p] = applied[p] /\ applied[p] \subseteq T /\ ~failed[p]
          /\ \A r \in T : file[r] = IF r \in applied[p] THEN m.after[r] ELSE m.before[r]
     /\ pc[p] = "remove" => applied[p] = T
     /\ pc[p] \in {"rollback", "end"} => on \in {None, Torn, m}
     /\ pc[p] = "rollback" =>
          /\ todo[p] \subseteq T
          /\ on = None => todo[p] = {} /\ ~failed[p]
          /\ ~failed[p] => \A r \in T \ todo[p] : file[r] = m.before[r]
     /\ pc[p] = "end" /\ on = None => AllOld(m)
     /\ pc[p] = "discard" => on = m /\ AllOld(m)
     /\ pc[p] = "committed" => on = None /\ AllNew(m)
     /\ pc[p] = "blocked" => on = None /\ AllOld(m)

\* Where a recovery is.
Restoring(p) ==
  LET m == journal[job[p]] IN
  /\ pc[p] \in Recovering \ {"leave"} => Readable(job[p]) /\ todo[p] \subseteq DOMAIN m.before
  /\ pc[p] \in {"resume", "undo"} => todo[p] = DOMAIN m.before
  /\ pc[p] \in {"resume", "undo"} => ~failed[p]
  /\ pc[p] = "resuming" /\ ~failed[p] => \A r \in DOMAIN m.before \ todo[p] : file[r] = m.after[r]
  /\ pc[p] = "undoing" /\ ~failed[p] => \A r \in DOMAIN m.before \ todo[p] : file[r] = m.before[r]

IInv ==
  /\ TypeOK /\ Employed /\ Single /\ Whole
  /\ \A p \in Proc : Progress(p) /\ Restoring(p)

-----------------------------------------------------------------------------
LEMMA ManifestFacts ==
  ASSUME NEW m \in Manifests
  PROVE  /\ m.before \in Images(DOMAIN m.before) /\ m.after \in Images(DOMAIN m.before)
         /\ DOMAIN m.before \subseteq Ref /\ m # None /\ m # Torn
<1>1. PICK T \in SUBSET Ref : m \in [before : Images(T), after : Images(T)]
  BY DEF Manifests
<1>2. DOMAIN m.before = T
  BY <1>1 DEF Images
<1> QED BY <1>1, <1>2, ManifestAssumption

\* The images of a plan are images files can have.
LEMMA AfterType ==
  ASSUME NEW seen \in Seen, NEW c \in Cr, NEW r \in {c, Index}
  PROVE  After(seen, c, r) \subseteq Cr /\ (r # Index => After(seen, c, r) = {c})
<1>1. seen.file \in [Ref -> SUBSET Cr]
  BY DEF Seen, Images
<1>2. \A d \in Cr : seen.file[d] \subseteq Cr
  BY <1>1 DEF Ref
<1>3. UNION {seen.file[d] : d \in Cr} \subseteq Cr
  BY <1>2
<1> QED BY <1>3 DEF After

\* The manifest of a plan names its targets, with their images in the plan.
LEMMA MineFacts ==
  ASSUME TypeOK, NEW p \in Proc, job[p] \in Auth
  PROVE  /\ Mine(p) \in Manifests
         /\ DOMAIN Mine(p).before = Targets(plan[p], CrOf[job[p]])
         /\ Targets(plan[p], CrOf[job[p]]) \subseteq {CrOf[job[p]], Index}
         /\ CrOf[job[p]] \in Cr /\ plan[p] \in Seen
         /\ \A r \in Targets(plan[p], CrOf[job[p]]) :
              /\ Mine(p).before[r] = plan[p].file[r]
              /\ Mine(p).after[r] = After(plan[p], CrOf[job[p]], r)
<1> DEFINE c == CrOf[job[p]]
           T == Targets(plan[p], c)
           b == [r \in T |-> plan[p].file[r]]
           a == [r \in T |-> After(plan[p], c, r)]
<1>1. c \in Cr /\ plan[p] \in Seen /\ T \subseteq {c, Index} /\ T \subseteq Ref
  BY TaskAssumption DEF TypeOK, Targets, Ref
<1>2. Mine(p) = [before |-> b, after |-> a]
  BY DEF Mine, Manifest
<1>3. b \in Images(T)
  BY <1>1 DEF Seen, Images, Ref
<1>4. a \in Images(T)
  <2>1. \A r \in T : After(plan[p], c, r) \subseteq Cr /\ (r # Index => After(plan[p], c, r) = {c})
    BY <1>1, AfterType
  <2>2. \A r \in T \intersect Cr : a[r] \subseteq {r}
    BY <1>1, <2>1, IndexAssumption
  <2> QED BY <2>1, <2>2 DEF Images
<1>5. Mine(p) \in [before : Images(T), after : Images(T)]
  BY <1>2, <1>3, <1>4
<1>6. Mine(p) \in Manifests
  BY <1>1, <1>5 DEF Manifests
<1> QED BY <1>1, <1>2, <1>6

\* What a step of one process leaves to the others.
Kept(p) ==
  \A q \in Proc \ {p} :
    /\ pc'[q] = pc[q] /\ job'[q] = job[q] /\ plan'[q] = plan[q]
    /\ applied'[q] = applied[q] /\ todo'[q] = todo[q] /\ failed'[q] = failed[q]

\* Only one process holds the lock.
LEMMA Exclusive ==
  ASSUME Employed, NEW p \in Proc, NEW q \in Proc, p # q, pc[p] \in Holding
  PROVE  pc[q] \notin Holding
  BY DEF Employed, Duty

LEMMA OneAtWork ==
  ASSUME OneSynchroniser, Employed, NEW p \in Proc, NEW q \in Proc,
         pc[p] \in Synchronising, pc[q] \in Synchronising
  PROVE  p = q
  BY DEF OneSynchroniser, Employed, Duty

LEMMA Labels ==
  /\ Admitted \union Recovering \subseteq Holding /\ Writing \subseteq Admitted
  /\ Admitted \subseteq Synchronising /\ {"lock", "admit", "journal"} \subseteq Synchronising
  BY DEF Admitted, Recovering, Holding, Writing, Synchronising, Waiting, Early

-----------------------------------------------------------------------------
(* Facts about generations.                                                 *)

\* A transaction stays sound while its files move between their two images.
LEMMA SoundKept ==
  ASSUME NEW m, NEW c \in Cr, Sound(m, c), overrun \subseteq overrun',
         \A r \in Ref \ DOMAIN m.before : file'[r] = file[r],
         \A r \in DOMAIN m.before : file'[r] \in {m.before[r], m.after[r]}
  PROVE  Sound(m, c)'
  BY DEF Sound, Old, New, Ref

LEMMA SoundSame ==
  ASSUME NEW m, NEW c \in Cr, Sound(m, c), UNCHANGED file, overrun \subseteq overrun'
  PROVE  Sound(m, c)'
  BY SoundKept DEF Sound

\* When all files are of one generation the index is right.
LEMMA OneGeneration ==
  ASSUME NEW m, NEW c \in Cr, Sound(m, c), AllOld(m) \/ AllNew(m)
  PROVE  Agree
<1>1. \A r : (AllOld(m) => Old(m, r) = file[r]) /\ (AllNew(m) => New(m, r) = file[r])
  BY DEF AllOld, AllNew, Old, New
<1> QED BY <1>1 DEF Sound, Agree

\* The other processes are where they were.
LEMMA OthersGoOn ==
  ASSUME Employed, \A q \in Proc : Progress(q) /\ Restoring(q), NEW p \in Proc, Kept(p),
         pc[p] \in Holding \/ UNCHANGED <<file, journal>>
  PROVE  \A q \in Proc \ {p} : Progress(q)' /\ Restoring(q)'
<1> SUFFICES ASSUME NEW q \in Proc \ {p} PROVE Progress(q)' /\ Restoring(q)'
  OBVIOUS
<1>1. /\ pc'[q] = pc[q] /\ job'[q] = job[q] /\ plan'[q] = plan[q]
      /\ applied'[q] = applied[q] /\ todo'[q] = todo[q] /\ failed'[q] = failed[q]
  BY DEF Kept
<1>2. CASE pc[p] \in Holding
  <2>1. pc'[q] \notin Holding
    BY <1>1, <1>2, Exclusive
  <2> QED BY <2>1 DEF Progress, Restoring, Holding, Admitted, Writing, Recovering
<1>3. CASE UNCHANGED <<file, journal>>
  <2>1. Mine(q)' = Mine(q) /\ journal'[job'[q]] = journal[job[q]]
    BY <1>1, <1>3 DEF Mine
  <2>2. Progress(q)'
    BY <1>1, <1>3, <2>1 DEF Progress, AllOld, AllNew
  <2>3. Restoring(q)'
    BY <1>1, <1>3, <2>1 DEF Restoring, Readable
  <2> QED BY <2>2, <2>3
<1> QED BY <1>2, <1>3

\* Whoever was admitted before is, with its plan.
SameAdmitted ==
  \A q \in Proc : pc'[q] \in Admitted =>
    pc[q] \in Admitted /\ plan'[q] = plan[q] /\ job'[q] = job[q]

\* The manifests on disk are untouched.
LEMMA WholeKept ==
  ASSUME TypeOK, Employed, Whole, UNCHANGED <<file, journal>>, overrun \subseteq overrun',
         SameAdmitted
  PROVE  Whole'
<1>1. NoTransaction' <=> NoTransaction
  BY DEF NoTransaction, Exists
<1>2. Agree => Agree'
  BY DEF Agree
<1>3. ASSUME NEW a \in Auth, Readable(a)' PROVE Sound(journal[a], CrOf[a])'
  <2>1. PICK m : m = journal[a]
    OBVIOUS
  <2>2. Sound(m, CrOf[a]) /\ CrOf[a] \in Cr
    BY <1>3, <2>1, TaskAssumption DEF Readable, Whole
  <2>3. Sound(m, CrOf[a])'
    BY <2>2, SoundSame
  <2> QED BY <2>1, <2>3
<1>4. ASSUME NEW q \in Proc, pc'[q] \in Admitted PROVE Sound(Mine(q), CrOf[job[q]])'
  <2>1. PICK m, c : m = Mine(q) /\ c = CrOf[job[q]]
    OBVIOUS
  <2>2. pc[q] \in Admitted /\ Mine(q)' = m /\ job'[q] = job[q]
    BY <1>4, <2>1 DEF SameAdmitted, Mine
  <2>3. job[q] \in Auth
    BY <2>2 DEF Employed, Duty, Admitted, Writing
  <2>4. Sound(m, c) /\ c \in Cr
    BY <2>1, <2>2, <2>3, TaskAssumption DEF Whole
  <2>5. Sound(m, c)'
    BY <2>4, SoundSame
  <2> QED BY <2>1, <2>2, <2>5
<1> QED BY <1>1, <1>2, <1>3, <1>4 DEF Whole

-----------------------------------------------------------------------------
(* Steps that touch neither a file nor a manifest.                          *)

LEMMA NoPlanType == NoPlan \in Seen
  BY DEF NoPlan, Seen, Images, Ref

\* A process that forgets is idle.
LEMMA ForgetDoes ==
  ASSUME TypeOK, NEW p \in Proc, Forget(p)
  PROVE  /\ pc' \in [Proc -> Synchronising \union Recovering \union {"idle"}]
         /\ job' \in [Proc -> Auth \union {None}] /\ plan' \in [Proc -> Seen]
         /\ applied' \in [Proc -> SUBSET Ref] /\ todo' \in [Proc -> SUBSET Ref]
         /\ failed' \in [Proc -> BOOLEAN]
         /\ Kept(p) /\ pc'[p] = "idle" /\ job'[p] = None
         /\ applied'[p] = {} /\ todo'[p] = {} /\ failed'[p] = FALSE
<1>1. /\ pc' \in [Proc -> Synchronising \union Recovering \union {"idle"}]
      /\ job' \in [Proc -> Auth \union {None}]
      /\ applied' \in [Proc -> SUBSET Ref] /\ todo' \in [Proc -> SUBSET Ref]
      /\ failed' \in [Proc -> BOOLEAN]
  BY DEF TypeOK, Forget, Goto
<1>2. plan' \in [Proc -> Seen]
  BY NoPlanType DEF TypeOK, Forget
<1>3. /\ pc'[p] = "idle" /\ job'[p] = None
      /\ applied'[p] = {} /\ todo'[p] = {} /\ failed'[p] = FALSE
  BY DEF TypeOK, Forget, Goto
<1>4. Kept(p)
  BY DEF TypeOK, Forget, Goto, Kept
<1> QED BY <1>1, <1>2, <1>3, <1>4

LEMMA GotoDoes ==
  ASSUME TypeOK, NEW p \in Proc, NEW label \in Synchronising \union Recovering, Goto(p, label)
  PROVE  /\ pc' \in [Proc -> Synchronising \union Recovering \union {"idle"}]
         /\ pc'[p] = label /\ \A q \in Proc \ {p} : pc'[q] = pc[q]
  BY DEF TypeOK, Goto

\* Nobody else holds the lock while it is free or held by p.
LEMMA EmployedKept ==
  ASSUME Employed, NEW p \in Proc, Kept(p), Duty(p)', lock' = lock \/ lock \in {None, p}
  PROVE  Employed'
<1> SUFFICES ASSUME NEW q \in Proc \ {p} PROVE Duty(q)'
  BY DEF Employed
<1>1. Duty(q) /\ q # None
  BY NoneAssumption DEF Employed
<1> QED BY <1>1 DEF Duty, Kept

LEMMA Quietly ==
  ASSUME OneSynchroniser, IInv, NEW p \in Proc, Kept(p), TypeOK', Duty(p)',
         lock' = lock \/ lock \in {None, p}, UNCHANGED <<file, journal>>,
         overrun \subseteq overrun',
         pc'[p] \notin Admitted \union Recovering,
         pc'[p] \in {"lock", "admit"} => NoTransaction
  PROVE  IInv'
<1>1. Employed'
  BY EmployedKept DEF IInv
<1>2. SameAdmitted
  BY DEF SameAdmitted, Kept
<1>3. Whole'
  BY <1>2, WholeKept DEF IInv
<1>4. NoTransaction' <=> NoTransaction
  BY DEF NoTransaction, Exists
<1>5. Single'
  <2>1. \A a, b \in Auth : Exists(a)' /\ Exists(b)' => a = b
    BY DEF IInv, Single, Exists
  <2>2. ASSUME NEW q \in Proc, pc'[q] \in {"lock", "admit", "journal"} PROVE NoTransaction'
    <3>1. CASE q = p
      BY <1>4, <2>2, <3>1 DEF Admitted
    <3>2. CASE q # p
      BY <1>4, <2>2, <3>2 DEF IInv, Single, Kept
    <3> QED BY <3>1, <3>2
  <2>3. ASSUME NEW q \in Proc, pc'[q] \in Writing, NEW a \in Auth, Exists(a)' PROVE a = job'[q]
    <3>1. q # p
      BY <2>3 DEF Admitted
    <3> QED BY <2>3, <3>1 DEF IInv, Single, Kept, Exists
  <2> QED BY <2>1, <2>2, <2>3 DEF Single
<1>6. \A q \in Proc \ {p} : Progress(q)' /\ Restoring(q)'
  BY OthersGoOn DEF IInv
<1>7. Progress(p)' /\ Restoring(p)'
  BY DEF Progress, Restoring, Admitted, Writing, Recovering
<1> QED BY <1>1, <1>3, <1>5, <1>6, <1>7 DEF IInv

LEMMA PlanStep ==
  ASSUME OneSynchroniser, IInv, NEW p \in Proc, NEW a \in Auth, Plan(p, a) PROVE IInv'
<1> DEFINE seen == [file |-> file, state |-> state, both |-> CrOf[a] \in Shown \ state]
<1>1. pc[p] = "idle" /\ a \in Task[p] /\ job' = [job EXCEPT ![p] = a]
      /\ plan' = [plan EXCEPT ![p] = seen]
      /\ UNCHANGED <<file, state, journal, claimed, lock, applied, todo, failed, apart, overrun>>
  BY DEF Plan
<1>2. PICK label \in {"prepare", "check"} : Goto(p, label)
  BY DEF Plan
<1>3. seen \in Seen
  BY DEF IInv, TypeOK, Seen
<1>4. pc' \in [Proc -> Synchronising \union Recovering \union {"idle"}]
      /\ pc'[p] = label /\ \A q \in Proc \ {p} : pc'[q] = pc[q]
  BY <1>2, GotoDoes DEF IInv, Synchronising, Early, Waiting
<1>5. TypeOK'
  BY <1>1, <1>3, <1>4 DEF IInv, TypeOK
<1>6. Kept(p)
  BY <1>1, <1>4 DEF IInv, TypeOK, Kept
<1>7. job'[p] = a /\ applied'[p] = {} /\ todo'[p] = {} /\ ~failed'[p]
  BY <1>1 DEF IInv, TypeOK, Employed, Duty, Writing, Recovering
<1>8. Duty(p)'
  BY <1>1, <1>2, <1>4, <1>7 DEF Duty, Holding, Admitted, Recovering, Writing
<1>9. label \notin Admitted \union Recovering \union {"lock", "admit"}
  BY DEF Admitted, Recovering, Writing
<1> QED BY <1>1, <1>4, <1>5, <1>6, <1>8, <1>9, Quietly

\* A step that only goes on to another place outside a transaction, or takes or gives back the lock.
LEMMA GoOn ==
  ASSUME OneSynchroniser, IInv, NEW p \in Proc,
         pc[p] \in Early \union Waiting \union {"admit", "blocked"},
         NEW label \in Early \union Waiting \union {"admit"}, Goto(p, label),
         UNCHANGED <<file, journal, claimed, job, plan, applied, todo, failed>>,
         state' \subseteq Cr, apart' \subseteq Cr, overrun \subseteq overrun',
         overrun' \subseteq Cr,
         lock' = lock \/ (lock \in {None, p} /\ lock' \in {None, p}),
         label \in {"validate", "admit"} => lock' = p,
         label = "lock" => NoTransaction,
         label = "admit" => NoTransaction
  PROVE  IInv'
<1>1. pc' \in [Proc -> Synchronising \union Recovering \union {"idle"}]
      /\ pc'[p] = label /\ \A q \in Proc \ {p} : pc'[q] = pc[q]
  BY GotoDoes DEF IInv, Synchronising
<1>2. TypeOK'
  BY <1>1 DEF IInv, TypeOK
<1>3. Kept(p)
  BY <1>1 DEF Kept
<1>4. Duty(p)
  BY DEF IInv, Employed
<1>5. Duty(p)'
  BY <1>1, <1>4 DEF Duty, Holding, Admitted, Recovering, Writing, Synchronising, Early, Waiting
<1>6. label \notin Admitted \union Recovering
  BY DEF Admitted, Recovering, Writing, Early, Waiting
<1> QED BY <1>1, <1>2, <1>3, <1>5, <1>6, Quietly

LEMMA GiveUp ==
  ASSUME OneSynchroniser, IInv, NEW p \in Proc, Forget(p),
         UNCHANGED <<file, journal, claimed>>, state' \subseteq Cr,
         apart' \subseteq Cr, overrun \subseteq overrun', overrun' \subseteq Cr,
         lock' = lock \/ (lock \in {None, p} /\ lock' \in {None, Left})
  PROVE  IInv'
<1>1. /\ pc' \in [Proc -> Synchronising \union Recovering \union {"idle"}]
      /\ job' \in [Proc -> Auth \union {None}] /\ plan' \in [Proc -> Seen]
      /\ applied' \in [Proc -> SUBSET Ref] /\ todo' \in [Proc -> SUBSET Ref]
      /\ failed' \in [Proc -> BOOLEAN]
      /\ Kept(p) /\ pc'[p] = "idle" /\ applied'[p] = {} /\ todo'[p] = {} /\ failed'[p] = FALSE
  BY ForgetDoes DEF IInv
<1>2. TypeOK'
  BY <1>1 DEF IInv, TypeOK
<1>3. Duty(p)'
  BY <1>1 DEF Duty, Holding, Admitted, Recovering, Writing, Synchronising, Early, Waiting
<1>4. pc'[p] \notin Admitted \union Recovering \union {"lock", "admit"}
  BY <1>1 DEF Admitted, Recovering, Writing
<1> QED BY <1>1, <1>2, <1>3, <1>4, Quietly

LEMMA Ranges ==
  ASSUME IInv, NEW p \in Proc
  PROVE  /\ state \subseteq Cr /\ apart \subseteq Cr /\ overrun \subseteq Cr
         /\ plan[p].state \subseteq Cr /\ \A r \in Ref : file[r] \subseteq Cr
            /\ plan[p].file[r] \subseteq Cr
         /\ p # None /\ p # Left /\ Duty(p)
         /\ pc[p] # "idle" => job[p] \in Auth /\ CrOf[job[p]] \in Cr
<1>1. Duty(p) /\ p # None /\ p # Left
  BY NoneAssumption DEF IInv, Employed
<1>2. state \subseteq Cr /\ apart \subseteq Cr /\ overrun \subseteq Cr /\ file \in Images(Ref)
      /\ plan[p] \in Seen
  BY DEF IInv, TypeOK
<1>3. \A r \in Ref : file[r] \subseteq Cr /\ plan[p].file[r] \subseteq Cr
  BY <1>2 DEF Seen, Images
<1>4. plan[p].state \subseteq Cr
  BY <1>2 DEF Seen
<1>5. pc[p] # "idle" => job[p] \in Auth /\ CrOf[job[p]] \in Cr
  BY <1>1, TaskAssumption DEF Duty
<1> QED BY <1>1, <1>2, <1>3, <1>4, <1>5

\* A refusal before anything was written.
LEMMA BlockedStep ==
  ASSUME OneSynchroniser, IInv, NEW p \in Proc, Blocked(p),
         pc[p] \in Early \union Waiting \union {"admit", "blocked"},
         UNCHANGED <<file, state, journal, claimed, apart, overrun>>,
         lock' = lock \/ (lock \in {None, p} /\ lock' = None)
  PROVE  IInv'
<1>1. state' \subseteq Cr /\ apart' \subseteq Cr /\ overrun' \subseteq Cr
  BY Ranges
<1>2. CASE Goto(p, "compensate") /\ UNCHANGED <<job, plan, applied, todo, failed>>
  <2>1. "compensate" \in Early \union Waiting \union {"admit"}
    BY DEF Waiting
  <2> QED BY <1>1, <1>2, <2>1, GoOn
<1>3. CASE Forget(p)
  BY <1>1, <1>3, GiveUp
<1> QED BY <1>2, <1>3 DEF Blocked

\* Before the transaction.
LEMMA PrepareStep ==
  ASSUME OneSynchroniser, IInv, NEW p \in Proc, Prepare(p) PROVE IInv'
<1>1. state \subseteq Cr /\ apart \subseteq Cr /\ overrun \subseteq Cr
  BY Ranges
<1>2. pc[p] = "prepare" /\ UNCHANGED <<file, state, journal, claimed, lock, apart, overrun>>
  BY DEF Prepare
<1>3. pc[p] \in Early /\ "vlock" \in Early
  BY <1>2 DEF Early
<1>4. CASE Goto(p, "vlock") /\ UNCHANGED <<job, plan, applied, todo, failed>>
  BY <1>1, <1>2, <1>3, <1>4, GoOn
<1>5. CASE Forget(p)
  BY <1>1, <1>2, <1>5, GiveUp
<1> QED BY <1>4, <1>5 DEF Prepare

LEMMA LockToValidateStep ==
  ASSUME OneSynchroniser, IInv, NEW p \in Proc, LockToValidate(p) PROVE IInv'
<1>1. state \subseteq Cr /\ apart \subseteq Cr /\ overrun \subseteq Cr
  BY Ranges
<1>2. pc[p] = "vlock" /\ UNCHANGED <<file, state, journal, claimed, apart, overrun>>
  BY DEF LockToValidate
<1>3. pc[p] \in Early /\ "validate" \in Early
  BY <1>2 DEF Early
<1>4. CASE lock = None /\ lock' = p /\ Goto(p, "validate")
           /\ UNCHANGED <<job, plan, applied, todo, failed>>
  BY <1>1, <1>2, <1>3, <1>4, GoOn
<1>5. CASE Forget(p) /\ UNCHANGED lock
  BY <1>1, <1>2, <1>5, GiveUp
<1> QED BY <1>4, <1>5 DEF LockToValidate

LEMMA ValidateStep ==
  ASSUME OneSynchroniser, IInv, NEW p \in Proc, Validate(p) PROVE IInv'
<1>1. state \subseteq Cr /\ apart \subseteq Cr /\ overrun \subseteq Cr
  BY Ranges
<1>2. pc[p] = "validate" /\ lock' = None
      /\ UNCHANGED <<file, state, journal, claimed, apart, overrun>>
  BY DEF Validate
<1>3. pc[p] \in Early /\ "state" \in Early /\ lock = p
  BY <1>2, Ranges DEF Early, Duty, Holding
<1>4. CASE Goto(p, "state") /\ UNCHANGED <<job, plan, applied, todo, failed>>
  BY <1>1, <1>2, <1>3, <1>4, GoOn
<1>5. CASE Forget(p)
  BY <1>1, <1>2, <1>3, <1>5, GiveUp
<1> QED BY <1>4, <1>5 DEF Validate

LEMMA WriteStateStep ==
  ASSUME OneSynchroniser, IInv, NEW p \in Proc, WriteState(p) PROVE IInv'
<1>1. state \subseteq Cr /\ apart \subseteq Cr /\ overrun \subseteq Cr
  BY Ranges
<1>2. pc[p] = "state" /\ UNCHANGED <<file, journal, claimed, lock, apart>>
  BY DEF WriteState
<1>3. pc[p] \in Early /\ "check" \in Waiting
  BY <1>2 DEF Early, Waiting
<1>4. CASE /\ state' = plan[p].state \union {CrOf[job[p]]}
           /\ overrun' = overrun \union Diff(state, plan[p].state)
           /\ Goto(p, "check")
           /\ UNCHANGED <<job, plan, applied, todo, failed>>
  <2>1. state' \subseteq Cr /\ overrun' \subseteq Cr
    BY <1>1, <1>2, <1>4, Ranges DEF Diff
  <2>2. overrun \subseteq overrun'
    BY <1>4
  <2> QED BY <1>1, <1>2, <1>3, <1>4, <2>1, <2>2, GoOn
<1>5. CASE Forget(p) /\ UNCHANGED <<state, overrun>>
  BY <1>1, <1>2, <1>5, GiveUp
<1> QED BY <1>4, <1>5 DEF WriteState

\* Around the transaction.
LEMMA CheckUnresolvedStep ==
  ASSUME OneSynchroniser, IInv, NEW p \in Proc, CheckUnresolved(p) PROVE IInv'
<1>1. state \subseteq Cr /\ apart \subseteq Cr /\ overrun \subseteq Cr
  BY Ranges
<1>2. pc[p] = "check" /\ UNCHANGED <<file, state, journal, claimed, lock, apart, overrun>>
  BY DEF CheckUnresolved
<1>3. pc[p] \in Waiting /\ "lock" \in Waiting
  BY <1>2 DEF Waiting
<1>4. CASE NoTransaction /\ Goto(p, "lock") /\ UNCHANGED <<job, plan, applied, todo, failed>>
  BY <1>1, <1>2, <1>3, <1>4, GoOn
<1>5. CASE Blocked(p)
  BY <1>2, <1>3, <1>5, BlockedStep
<1> QED BY <1>4, <1>5 DEF CheckUnresolved, NoTransaction

LEMMA LockToApplyStep ==
  ASSUME OneSynchroniser, IInv, NEW p \in Proc, LockToApply(p) PROVE IInv'
<1>1. state \subseteq Cr /\ apart \subseteq Cr /\ overrun \subseteq Cr
  BY Ranges
<1>2. pc[p] = "lock" /\ UNCHANGED <<file, state, journal, claimed, apart, overrun>>
  BY DEF LockToApply
<1>3. pc[p] \in Waiting /\ NoTransaction
  BY <1>2 DEF Waiting, IInv, Single
<1>4. CASE lock = None /\ lock' = p /\ Goto(p, "admit")
           /\ UNCHANGED <<job, plan, applied, todo, failed>>
  BY <1>1, <1>2, <1>3, <1>4, GoOn
<1>5. CASE Blocked(p) /\ UNCHANGED lock
  BY <1>2, <1>3, <1>5, BlockedStep
<1> QED BY <1>4, <1>5 DEF LockToApply

LEMMA ReleaseStep ==
  ASSUME OneSynchroniser, IInv, NEW p \in Proc, Release(p) PROVE IInv'
<1>1. state \subseteq Cr /\ apart \subseteq Cr /\ overrun \subseteq Cr
  BY Ranges
<1>2. /\ pc[p] \in {"committed", "blocked", "end"} /\ lock' = None
      /\ UNCHANGED <<file, state, journal, claimed, overrun, faults>>
  BY DEF Release
<1>3. lock = p /\ CrOf[job[p]] \in Cr
  BY <1>2, Ranges DEF Duty, Holding, Admitted, Writing
<1>4. CASE pc[p] = "blocked" /\ Blocked(p)
  <2>1. apart' = apart
    BY <1>4 DEF Release
  <2> QED BY <1>2, <1>3, <1>4, <2>1, BlockedStep
<1>5. CASE Forget(p)
  <2>1. apart' \subseteq Cr
    BY <1>1, <1>2, <1>3 DEF Release
  <2> QED BY <1>1, <1>2, <1>3, <1>5, <2>1, GiveUp
<1> QED BY <1>2, <1>4, <1>5 DEF Release

LEMMA CompensateStep ==
  ASSUME OneSynchroniser, IInv, NEW p \in Proc, Compensate(p) PROVE IInv'
<1>1. state \subseteq Cr /\ apart \subseteq Cr /\ overrun \subseteq Cr
  BY Ranges
<1>2. pc[p] = "compensate" /\ Forget(p) /\ UNCHANGED <<file, journal, claimed, lock>>
  BY DEF Compensate
<1>3. CASE /\ state' = plan[p].state
           /\ overrun' = overrun \union Diff(state, plan[p].state \union {CrOf[job[p]]})
           /\ UNCHANGED apart
  <2>1. state' \subseteq Cr /\ overrun' \subseteq Cr
    BY <1>1, <1>2, <1>3, Ranges DEF Diff
  <2>2. overrun \subseteq overrun'
    BY <1>3
  <2> QED BY <1>1, <1>2, <1>3, <2>1, <2>2, GiveUp
<1>4. CASE apart' = apart \union {CrOf[job[p]]} /\ UNCHANGED <<state, overrun>>
  <2>1. apart' \subseteq Cr
    BY <1>1, <1>2, <1>4, Ranges
  <2> QED BY <1>1, <1>2, <1>4, <2>1, GiveUp
<1> QED BY <1>3, <1>4 DEF Compensate

LEMMA LeaveRecoveryStep ==
  ASSUME OneSynchroniser, IInv, NEW p \in Proc, LeaveRecovery(p) PROVE IInv'
<1>1. state \subseteq Cr /\ apart \subseteq Cr /\ overrun \subseteq Cr
  BY Ranges
<1>2. /\ pc[p] = "leave" /\ lock' = None /\ Forget(p)
      /\ UNCHANGED <<file, state, journal, claimed, apart, overrun>>
  BY DEF LeaveRecovery
<1>3. lock = p
  BY <1>2, Ranges DEF Duty, Holding, Recovering
<1> QED BY <1>1, <1>2, <1>3, GiveUp

LEMMA CrashStep ==
  ASSUME OneSynchroniser, IInv, NEW p \in Proc, Crash(p) PROVE IInv'
<1>1. state \subseteq Cr /\ apart \subseteq Cr /\ overrun \subseteq Cr
  BY Ranges
<1>2. pc[p] # "idle" /\ Forget(p) /\ UNCHANGED <<file, state, journal, claimed, overrun>>
  BY DEF Crash
<1>3. lock' = lock \/ (lock \in {None, p} /\ lock' \in {None, Left})
  BY DEF Crash
<1>4. apart' \subseteq Cr
  BY <1>1, <1>2, Ranges DEF Crash
<1> QED BY <1>1, <1>2, <1>3, <1>4, GiveUp

-----------------------------------------------------------------------------
(* The admission: the index is right before and after the transaction.      *)

LEMMA AdmitSound ==
  ASSUME IInv, NEW p \in Proc, pc[p] = "admit", PreimagesExact(p), UNCHANGED <<file, job, plan>>,
         overrun' = overrun \union UNION {Diff(file[r], plan[p].file[r]) : r \in Ref}
  PROVE  AllOld(Mine(p))' /\ Sound(Mine(p), CrOf[job[p]])'
<1> DEFINE c == CrOf[job[p]]
           s == plan[p]
           T == Targets(s, c)
           m == Mine(p)
<1>1. /\ job[p] \in Auth /\ c \in Cr /\ s \in Seen /\ m \in Manifests
      /\ DOMAIN m.before = T /\ T \subseteq {c, Index}
      /\ \A r \in T : m.before[r] = s.file[r] /\ m.after[r] = After(s, c, r)
  BY Ranges, MineFacts DEF IInv
<1>2. \A r \in T : file[r] = m.before[r]
  BY <1>1 DEF PreimagesExact
<1>3. Agree
  <2>1. NoTransaction
    BY DEF IInv, Single
  <2> QED BY <2>1 DEF IInv, Whole
<1>4. ASSUME NEW d \in Cr, d \notin overrun', NEW r \in Ref PROVE d \in file[r] <=> d \in s.file[r]
  BY <1>4 DEF Diff
<1>5. \A r : Old(m, r) = file[r]
  BY <1>1, <1>2 DEF Old
<1>6. ASSUME NEW d \in Cr, d \notin overrun' PROVE d \in New(m, Index) <=> d \in New(m, d)
  <2>1. d \in After(s, c, Index) <=> d \in s.file[d] \/ d = c
    <3>1. s.file \in Images(Ref)
      BY <1>1 DEF Seen
    <3>2. \A e \in Cr : s.file[e] \subseteq {e}
      BY <3>1 DEF Images, Ref
    <3>3. d \in UNION {s.file[e] : e \in Cr} <=> d \in s.file[d]
      BY <3>2
    <3> QED BY <3>3 DEF After
  <2>2. d \in New(m, Index) <=> d \in After(s, c, Index)
    <3>1. CASE Index \in T
      BY <1>1, <3>1 DEF New
    <3>2. CASE Index \notin T
      <4>1. After(s, c, Index) = s.file[Index]
        BY <3>2 DEF Targets
      <4>2. New(m, Index) = file[Index]
        BY <1>1, <3>2 DEF New
      <4> QED BY <1>4, <1>6, <4>1, <4>2 DEF Ref
    <3> QED BY <3>1, <3>2
  <2>3. CASE d = c
    <3>1. After(s, c, c) = {c}
      BY <1>1, IndexAssumption DEF After
    <3>2. CASE c \in T
      BY <1>1, <2>1, <2>2, <2>3, <3>1, <3>2 DEF New
    <3>3. CASE c \notin T
      <4>1. s.file[c] = {c}
        BY <3>1, <3>3 DEF Targets
      <4>2. New(m, c) = file[c]
        BY <1>1, <3>3 DEF New
      <4>3. c \in file[c]
        BY <1>4, <1>6, <2>3, <4>1 DEF Ref
      <4> QED BY <2>1, <2>2, <2>3, <4>2, <4>3
    <3> QED BY <3>2, <3>3
  <2>4. CASE d # c
    <3>1. New(m, d) = file[d]
      BY <1>1, <2>4, IndexAssumption DEF New
    <3> QED BY <1>4, <1>6, <2>1, <2>2, <2>4, <3>1 DEF Ref
  <2> QED BY <2>3, <2>4
<1>7. overrun \subseteq overrun'
  OBVIOUS
<1>8. Mine(p)' = m /\ CrOf[job[p]]' = c
  BY DEF Mine
<1>9. PICK n, k : n = m /\ k = c
  OBVIOUS
<1>10. AllOld(n)' /\ Sound(n, k)'
  <2>1. \A r : Old(n, r)' = file[r] /\ New(n, r)' = New(n, r)
    BY <1>5, <1>9 DEF Old, New
  <2>2. \A d \in Cr \ overrun' : d \in file[Index] <=> d \in file[d]
    BY <1>3, <1>7 DEF Agree
  <2>3. \A d \in Cr \ overrun' : d \in New(n, Index) <=> d \in New(n, d)
    BY <1>6, <1>9
  <2>4. n \in Manifests /\ DOMAIN n.before \subseteq {k, Index}
        /\ \A r \in DOMAIN n.before : file[r] = n.before[r]
    BY <1>1, <1>2, <1>9
  <2>5. AllOld(n)'
    BY <2>4 DEF AllOld
  <2> QED BY <2>1, <2>2, <2>3, <2>4, <2>5 DEF Sound
<1> QED BY <1>8, <1>9, <1>10

LEMMA AdmitStep ==
  ASSUME OneSynchroniser, IInv, NEW p \in Proc, Admit(p) PROVE IInv'
<1>1. state \subseteq Cr /\ apart \subseteq Cr /\ overrun \subseteq Cr
  BY Ranges
<1>2. pc[p] = "admit" /\ UNCHANGED <<file, state, journal>>
  BY DEF Admit
<1>3. lock = p /\ CrOf[job[p]] \in Cr /\ job[p] \in Auth
  BY <1>2, Ranges DEF Duty, Holding
<1>4. NoTransaction
  BY <1>2 DEF IInv, Single
<1>5. CASE lock' = None /\ Blocked(p) /\ UNCHANGED <<claimed, apart, overrun, faults>>
  BY <1>2, <1>3, <1>5, BlockedStep
<1>6. CASE /\ lock' = Left /\ Forget(p) /\ UNCHANGED <<claimed, overrun>>
           /\ apart' = IF plan[p].both THEN apart \union {CrOf[job[p]]} ELSE apart
  BY <1>1, <1>2, <1>3, <1>6, GiveUp
<1>7. CASE /\ PreimagesExact(p)
           /\ claimed' = claimed \union {job[p]}
           /\ overrun' = overrun \union UNION {Diff(file[r], plan[p].file[r]) : r \in Ref}
           /\ Goto(p, "journal")
           /\ UNCHANGED <<lock, job, plan, applied, todo, failed, apart>>
  <2>1. /\ pc' \in [Proc -> Synchronising \union Recovering \union {"idle"}]
        /\ pc'[p] = "journal" /\ \A q \in Proc \ {p} : pc'[q] = pc[q]
    BY <1>7, GotoDoes DEF IInv, Synchronising, Admitted
  <2>2. overrun' \subseteq Cr /\ overrun \subseteq overrun'
    BY <1>1, <1>7, Ranges DEF Diff
  <2>3. TypeOK'
    BY <1>2, <1>3, <1>7, <2>1, <2>2 DEF IInv, TypeOK
  <2>4. Kept(p)
    BY <1>7, <2>1 DEF Kept
  <2>5. Employed'
    <3>1. Duty(p)'
      BY <1>2, <1>3, <1>7, <2>1, Ranges
      DEF Duty, Holding, Admitted, Recovering, Writing, Synchronising, Early, Waiting
    <3> QED BY <1>7, <2>4, <3>1, EmployedKept DEF IInv
  <2>6. ASSUME NEW q \in Proc, q # p PROVE pc'[q] \notin Holding /\ pc'[q] = pc[q]
    <3>1. pc[p] \in Holding
      BY <1>2 DEF Holding
    <3> QED BY <2>1, <2>6, <3>1, Exclusive DEF IInv
  <2>7. Single'
    <3>1. NoTransaction'
      BY <1>2, <1>4 DEF NoTransaction, Exists
    <3> QED BY <3>1 DEF Single, NoTransaction
  <2>8. AllOld(Mine(p))' /\ Sound(Mine(p), CrOf[job[p]])'
    BY <1>2, <1>7, AdmitSound
  <2>9. Whole'
    <3>1. NoTransaction' => Agree'
      BY <1>2, <1>4, <2>2 DEF Agree, IInv, Whole
    <3>2. \A a \in Auth : ~Readable(a)'
      BY <1>2, <1>4 DEF NoTransaction, Exists, Readable
    <3>3. ASSUME NEW q \in Proc, pc'[q] \in Admitted PROVE q = p
      BY <2>6, <3>3, Labels
    <3> QED BY <2>8, <3>1, <3>2, <3>3 DEF Whole
  <2>10. \A q \in Proc \ {p} : Progress(q)' /\ Restoring(q)'
    BY <1>2, <2>4, OthersGoOn DEF IInv
  <2>11. Progress(p)' /\ Restoring(p)'
    BY <2>1, <2>8 DEF Progress, Restoring, Recovering
  <2> QED BY <2>3, <2>5, <2>7, <2>9, <2>10, <2>11 DEF IInv
<1> QED BY <1>5, <1>6, <1>7 DEF Admit

-----------------------------------------------------------------------------
(* Steps in the transaction.                                                *)

\* What a step in its transaction must show for the process itself.
LEMMA InTransaction ==
  ASSUME OneSynchroniser, IInv, NEW p \in Proc, pc[p] \in Admitted, pc'[p] \in Writing,
         TypeOK', Kept(p), Whole', Progress(p)',
         lock' = lock, job'[p] = job[p], \A a \in Auth \ {job[p]} : journal'[a] = journal[a],
         pc'[p] = "blocked" => applied'[p] = {},
         pc'[p] \in {"discard", "blocked"} => todo'[p] = {} /\ ~failed'[p]
  PROVE  IInv'
<1>1. pc[p] \in Holding /\ pc[p] \in Synchronising /\ pc'[p] \in Holding /\ pc'[p] \in Synchronising
  BY Labels
<1>2. Duty(p) /\ pc[p] # "idle"
  BY DEF IInv, Employed, Admitted, Writing
<1>3. Duty(p)'
  BY <1>1, <1>2 DEF Duty, Writing
<1>4. Employed'
  BY <1>3, EmployedKept DEF IInv
<1>5. ASSUME NEW q \in Proc \ {p} PROVE pc'[q] \notin {"lock", "admit", "journal"} \union Writing
  <2>1. pc[q] \notin Synchronising
    BY <1>1, OneAtWork DEF IInv
  <2> QED BY <2>1, Labels DEF Kept
<1>6. \A a \in Auth : Exists(a) => a = job[p]
  BY DEF IInv, Single, Admitted, NoTransaction
<1>7. \A a \in Auth : Exists(a)' => a = job[p]
  BY <1>6 DEF Exists
<1>8. Single'
  BY <1>5, <1>7 DEF Single, Writing
<1>9. \A q \in Proc \ {p} : Progress(q)' /\ Restoring(q)'
  BY <1>1, OthersGoOn DEF IInv
<1>10. Restoring(p)'
  BY DEF Restoring, Recovering, Writing
<1> QED BY <1>4, <1>8, <1>9, <1>10 DEF IInv

LEMMA WriteManifestDoes ==
  ASSUME NEW p \in Proc, NEW good, NEW bad, WriteManifest(p, good, bad), TypeOK
  PROVE  \E x \in {Mine(p), Torn, journal[job[p]]} :
           /\ journal' = [journal EXCEPT ![job[p]] = x]
           /\ \/ x = Mine(p) /\ Goto(p, good)
              \/ x \in {Torn, journal[job[p]]} /\ Goto(p, bad)
<1>1. journal = [journal EXCEPT ![job[p]] = journal[job[p]]]
  BY DEF TypeOK
<1>2. PICK o \in TextOutcomes :
        /\ journal' = CASE o = "ok"   ->
                             [journal EXCEPT ![job[p]] = Manifest(plan[p], CrOf[job[p]])]
                        [] o = "torn" -> [journal EXCEPT ![job[p]] = Torn]
                        [] o = "lost" -> journal
        /\ Goto(p, IF o = "ok" THEN good ELSE bad)
  BY DEF WriteManifest
<1>3. CASE o = "ok"
  BY <1>2, <1>3 DEF Mine
<1>4. CASE o = "torn"
  BY <1>2, <1>4
<1>5. CASE o = "lost"
  BY <1>1, <1>2, <1>5
<1> QED BY <1>3, <1>4, <1>5 DEF TextOutcomes

\* A write of the manifest.
LEMMA WriteStep ==
  ASSUME OneSynchroniser, IInv, NEW p \in Proc, pc[p] \in Admitted,
         NEW good \in Writing \ {"blocked"}, NEW bad \in Writing \ {"blocked", "discard"},
         WriteManifest(p, good, bad), good = "discard" => todo[p] = {} /\ ~failed[p],
         UNCHANGED <<file, state, claimed, lock, job, plan, applied, todo, failed, apart, overrun>>,
         Progress(p)'
  PROVE  IInv'
<1> DEFINE m == Mine(p)
<1>1. job[p] \in Auth /\ m \in Manifests /\ m # None /\ m # Torn
  <2>1. job[p] \in Auth
    BY Ranges DEF Admitted, Writing
  <2> QED BY <2>1, MineFacts, ManifestFacts DEF IInv
<1>2. PICK x \in {m, Torn, journal[job[p]]} :
        /\ journal' = [journal EXCEPT ![job[p]] = x]
        /\ \/ x = m /\ Goto(p, good)
           \/ x \in {Torn, journal[job[p]]} /\ Goto(p, bad)
  BY WriteManifestDoes DEF IInv
<1>3. PICK label \in Writing \ {"blocked"} : Goto(p, label)
           /\ (label = "discard" => todo[p] = {} /\ ~failed[p])
  BY <1>2
<1>4. /\ pc' \in [Proc -> Synchronising \union Recovering \union {"idle"}]
      /\ pc'[p] = label /\ \A q \in Proc \ {p} : pc'[q] = pc[q]
  BY <1>3, GotoDoes, Labels DEF IInv
<1>5. journal \in [Auth -> Manifests \union {None, Torn}]
  BY DEF IInv, TypeOK
<1>6. journal' \in [Auth -> Manifests \union {None, Torn}]
  BY <1>1, <1>2, <1>5
<1>7. journal'[job[p]] = x /\ \A a \in Auth \ {job[p]} : journal'[a] = journal[a]
  BY <1>1, <1>2, <1>5
<1>8. TypeOK'
  BY <1>4, <1>6 DEF IInv, TypeOK
<1>9. Kept(p)
  BY <1>4 DEF Kept
<1>10. Whole'
  <2>1. PICK n, c : n = m /\ c = CrOf[job[p]]
    OBVIOUS
  <2>2. Sound(n, c) /\ c \in Cr
    BY <1>1, <2>1, TaskAssumption DEF IInv, Whole
  <2>3. Sound(n, c)'
    BY <2>2, SoundSame
  <2>4. NoTransaction' => Agree'
    <3>1. CASE x = journal[job[p]]
      <4>1. journal' = journal
        BY <1>2, <1>5, <3>1
      <4> QED BY <4>1 DEF IInv, Whole, NoTransaction, Exists, Agree
    <3>2. CASE x # journal[job[p]]
      <4>1. x # None
        BY <1>1, <1>2, <3>2, NoneAssumption
      <4>2. Exists(job[p])'
        BY <1>7, <4>1 DEF Exists
      <4> QED BY <1>1, <4>2 DEF NoTransaction
    <3> QED BY <3>1, <3>2
  <2>5. ASSUME NEW a \in Auth, Readable(a)' PROVE Sound(journal[a], CrOf[a])'
    <3>1. CASE a = job[p] /\ x = m
      BY <1>7, <2>1, <2>3, <3>1
    <3>2. CASE ~(a = job[p] /\ x = m)
      <4>1. journal'[a] = journal[a] /\ Readable(a)
        BY <1>2, <1>7, <2>5, <3>2 DEF Readable
      <4>2. PICK k, d : k = journal[a] /\ d = CrOf[a]
        OBVIOUS
      <4>3. Sound(k, d) /\ d \in Cr
        BY <4>1, <4>2, TaskAssumption DEF IInv, Whole
      <4>4. Sound(k, d)'
        BY <4>3, SoundSame
      <4> QED BY <4>1, <4>2, <4>4
    <3> QED BY <3>1, <3>2
  <2>6. ASSUME NEW q \in Proc, pc'[q] \in Admitted PROVE Sound(Mine(q), CrOf[job[q]])'
    <3>1. q = p
      <4>1. pc[q] \in Admitted
        BY <1>4, <2>6
      <4> QED BY <4>1, OneAtWork, Labels DEF IInv
    <3>2. Mine(q)' = n /\ CrOf[job[q]]' = c
      BY <2>1, <3>1 DEF Mine
    <3> QED BY <2>3, <3>2
  <2> QED BY <2>4, <2>5, <2>6 DEF Whole
<1> QED BY <1>3, <1>4, <1>7, <1>8, <1>9, <1>10, InTransaction

\* A removal of the transaction of m, when all files are of one generation.
LEMMA WholeRemove ==
  ASSUME TypeOK, Employed, Whole, NEW m, NEW c \in Cr, Sound(m, c), AllOld(m) \/ AllNew(m),
         UNCHANGED <<file, overrun>>, SameAdmitted,
         \A a \in Auth : Readable(a)' => journal'[a] = journal[a]
  PROVE  Whole'
<1>1. Agree'
  <2>1. Agree
    BY OneGeneration
  <2> QED BY <2>1 DEF Agree
<1>2. ASSUME NEW a \in Auth, Readable(a)' PROVE Sound(journal[a], CrOf[a])'
  <2>1. journal'[a] = journal[a] /\ Readable(a)
    BY <1>2 DEF Readable
  <2>2. PICK k, d : k = journal[a] /\ d = CrOf[a]
    OBVIOUS
  <2>3. Sound(k, d) /\ d \in Cr
    BY <2>1, <2>2, TaskAssumption DEF Whole
  <2>4. Sound(k, d)'
    BY <2>3, SoundSame
  <2> QED BY <2>1, <2>2, <2>4
<1>3. ASSUME NEW q \in Proc, pc'[q] \in Admitted PROVE Sound(Mine(q), CrOf[job[q]])'
  <2>1. PICK k, d : k = Mine(q) /\ d = CrOf[job[q]]
    OBVIOUS
  <2>2. pc[q] \in Admitted /\ Mine(q)' = k /\ CrOf[job[q]]' = d
    BY <1>3, <2>1 DEF SameAdmitted, Mine
  <2>3. Sound(k, d) /\ d \in Cr
    BY <2>1, <2>2, TaskAssumption DEF Whole, Employed, Duty, Admitted, Writing
  <2>4. Sound(k, d)'
    BY <2>3, SoundSame
  <2> QED BY <2>2, <2>4
<1> QED BY <1>1, <1>2, <1>3 DEF Whole

\* One file of the only transaction moves between its generations.
LEMMA WholeFile ==
  ASSUME TypeOK, Whole, NEW m, NEW c \in Cr, Sound(m, c), NEW r \in DOMAIN m.before,
         NEW x \in {m.before[r], m.after[r]}, file' = file \/ file' = [file EXCEPT ![r] = x],
         UNCHANGED <<journal, overrun>>, ~NoTransaction,
         \A a \in Auth : Readable(a) => journal[a] = m /\ CrOf[a] = c,
         \A q \in Proc : pc'[q] \in Admitted => Mine(q)' = m /\ CrOf[job[q]]' = c
  PROVE  Whole' /\ file' \in Images(Ref)
<1>1. m \in Manifests /\ file \in Images(Ref)
  BY DEF Sound, TypeOK
<1>2. m.before \in Images(DOMAIN m.before) /\ m.after \in Images(DOMAIN m.before) /\ r \in Ref
  BY <1>1, ManifestFacts
<1>3. x \subseteq Cr /\ (r \in Cr => x \subseteq {r})
  BY <1>2 DEF Images
<1>4. file' \in Images(Ref)
  BY <1>1, <1>2, <1>3 DEF Images
<1>5. \A s \in Ref : file'[s] = file[s] \/ (s = r /\ file'[s] = x)
  BY <1>1 DEF Images
<1>6. Sound(m, c)'
  <2>1. \A s \in Ref \ DOMAIN m.before : file'[s] = file[s]
    BY <1>5
  <2>2. \A s \in DOMAIN m.before : file'[s] \in {m.before[s], m.after[s]}
    BY <1>1, <1>5, ManifestFacts DEF Sound
  <2> QED BY <2>1, <2>2, SoundKept
<1>7. ~NoTransaction' /\ \A a \in Auth : Readable(a)' => journal'[a] = m /\ CrOf[a] = c
  BY DEF NoTransaction, Exists, Readable
<1> QED BY <1>4, <1>6, <1>7 DEF Whole

\* Where a write of the manifest leads, and what is on disk then.
LEMMA WriteOutcome ==
  ASSUME IInv, NEW p \in Proc, pc[p] \in Admitted, NEW good, NEW bad, WriteManifest(p, good, bad),
         UNCHANGED <<file, job, plan>>
  PROVE  /\ \/ journal'[job[p]] = Mine(p) /\ pc'[p] = good
            \/ journal'[job[p]] \in {Torn, journal[job[p]]} /\ pc'[p] = bad
         /\ Mine(p)' = Mine(p) /\ (AllOld(Mine(p))' <=> AllOld(Mine(p)))
            /\ (AllNew(Mine(p))' <=> AllNew(Mine(p)))
<1>1. job[p] \in Auth
  BY Ranges DEF Admitted, Writing
<1>2. PICK x \in {Mine(p), Torn, journal[job[p]]} :
        /\ journal' = [journal EXCEPT ![job[p]] = x]
        /\ \/ x = Mine(p) /\ Goto(p, good)
           \/ x \in {Torn, journal[job[p]]} /\ Goto(p, bad)
  BY WriteManifestDoes DEF IInv
<1>3. journal \in [Auth -> Manifests \union {None, Torn}]
      /\ pc \in [Proc -> Synchronising \union Recovering \union {"idle"}]
  BY DEF IInv, TypeOK
<1>4. journal'[job[p]] = x
  BY <1>1, <1>2, <1>3
<1>5. \/ x = Mine(p) /\ pc'[p] = good
      \/ x \in {Torn, journal[job[p]]} /\ pc'[p] = bad
  BY <1>2, <1>3 DEF Goto
<1>6. Mine(p)' = Mine(p)
  BY DEF Mine
<1>7. (AllOld(Mine(p))' <=> AllOld(Mine(p))) /\ (AllNew(Mine(p))' <=> AllNew(Mine(p)))
  BY <1>6 DEF AllOld, AllNew
<1> QED BY <1>4, <1>5, <1>6, <1>7

LEMMA OpenTransactionStep ==
  ASSUME OneSynchroniser, IInv, NEW p \in Proc, OpenTransaction(p) PROVE IInv'
<1>1. /\ pc[p] = "journal" /\ WriteManifest(p, "next", "rollback")
      /\ UNCHANGED <<file, state, claimed, lock, job, plan, applied, todo, failed, apart, overrun>>
  BY DEF OpenTransaction
<1>2. /\ pc[p] \in Admitted /\ AllOld(Mine(p)) /\ journal[job[p]] = None
      /\ applied[p] = {} /\ todo[p] = {} /\ ~failed[p]
  <2>1. pc[p] \in Admitted /\ pc[p] \notin Writing
    BY <1>1 DEF Admitted, Writing
  <2>2. AllOld(Mine(p)) /\ NoTransaction /\ job[p] \in Auth
    BY <1>1, Ranges DEF IInv, Progress, Single
  <2> QED BY <1>1, <2>1, <2>2, Ranges DEF Duty, Recovering, NoTransaction, Exists
<1>3. /\ \/ journal'[job[p]] = Mine(p) /\ pc'[p] = "next"
         \/ journal'[job[p]] \in {Torn, None} /\ pc'[p] = "rollback"
      /\ Mine(p)' = Mine(p) /\ AllOld(Mine(p))'
  BY <1>1, <1>2, WriteOutcome
<1>4. Progress(p)'
  BY <1>1, <1>2, <1>3 DEF Progress, AllOld
<1> QED BY <1>1, <1>2, <1>4, WriteStep DEF Writing

LEMMA WriteReceiptStep ==
  ASSUME OneSynchroniser, IInv, NEW p \in Proc, WriteReceipt(p) PROVE IInv'
<1>1. /\ pc[p] = "receipt" /\ WriteManifest(p, "next", "rollback")
      /\ UNCHANGED <<file, state, claimed, lock, job, plan, applied, todo, failed, apart, overrun>>
  BY DEF WriteReceipt
<1>2. pc[p] \in Admitted
  BY <1>1 DEF Admitted, Writing
<1>3. \/ journal'[job[p]] = Mine(p) /\ pc'[p] = "next"
      \/ journal'[job[p]] \in {Torn, Mine(p)} /\ pc'[p] = "rollback"
  BY <1>1, <1>2, WriteOutcome DEF IInv, Progress
<1>4. Mine(p)' = Mine(p) /\ Torn # None /\ Mine(p) # None
  <2>1. job[p] \in Auth
    BY <1>1, Ranges
  <2> QED BY <1>1, <1>2, <2>1, WriteOutcome, MineFacts, ManifestFacts, NoneAssumption DEF IInv
<1>5. Progress(p)'
  BY <1>1, <1>3, <1>4 DEF Progress, IInv
<1> QED BY <1>1, <1>2, <1>5, WriteStep DEF Writing

LEMMA CommitStep ==
  ASSUME OneSynchroniser, IInv, NEW p \in Proc, Commit(p) PROVE IInv'
<1>1. /\ pc[p] = "next" /\ WriteManifest(p, "remove", "rollback")
      /\ applied[p] = Targets(plan[p], CrOf[job[p]])
      /\ UNCHANGED <<file, state, claimed, lock, job, plan, applied, todo, failed, apart, overrun>>
  BY DEF Commit
<1>2. pc[p] \in Admitted
  BY <1>1 DEF Admitted, Writing
<1>3. \/ journal'[job[p]] = Mine(p) /\ pc'[p] = "remove"
      \/ journal'[job[p]] \in {Torn, Mine(p)} /\ pc'[p] = "rollback"
  BY <1>1, <1>2, WriteOutcome DEF IInv, Progress
<1>4. Mine(p)' = Mine(p) /\ Torn # None /\ Mine(p) # None /\ applied[p] = DOMAIN Mine(p).before
  <2>1. job[p] \in Auth
    BY <1>1, Ranges
  <2> QED BY <1>1, <1>2, <2>1, WriteOutcome, MineFacts, ManifestFacts, NoneAssumption DEF IInv
<1>5. Progress(p)'
  BY <1>1, <1>3, <1>4 DEF Progress, IInv
<1> QED BY <1>1, <1>2, <1>5, WriteStep DEF Writing

LEMMA FinishRollbackStep ==
  ASSUME OneSynchroniser, IInv, NEW p \in Proc, FinishRollback(p) PROVE IInv'
<1>1. /\ pc[p] = "rollback" /\ todo[p] = {}
      /\ WriteManifest(p, IF failed[p] THEN "end" ELSE "discard", "end")
      /\ UNCHANGED <<file, state, claimed, lock, job, plan, applied, todo, failed, apart, overrun>>
  BY DEF FinishRollback
<1>2. pc[p] \in Admitted
  BY <1>1 DEF Admitted, Writing
<1>3. PICK good \in {"end", "discard"} : good = IF failed[p] THEN "end" ELSE "discard"
  OBVIOUS
<1>4. /\ \/ journal'[job[p]] = Mine(p) /\ pc'[p] = good
         \/ journal'[job[p]] \in {Torn, journal[job[p]]} /\ pc'[p] = "end"
      /\ Mine(p)' = Mine(p) /\ (AllOld(Mine(p))' <=> AllOld(Mine(p)))
  BY <1>1, <1>2, <1>3, WriteOutcome
<1>5. Torn # None /\ Mine(p) # None
  <2>1. job[p] \in Auth
    BY <1>1, Ranges
  <2> QED BY <2>1, MineFacts, ManifestFacts, NoneAssumption DEF IInv
<1>6. /\ journal[job[p]] \in {None, Torn, Mine(p)}
      /\ journal[job[p]] = None => ~failed[p]
      /\ ~failed[p] => AllOld(Mine(p))
  BY <1>1 DEF IInv, Progress, AllOld
<1>7. Progress(p)'
  <2>1. pc'[p] \in {"end", "discard"} /\ journal'[job'[p]] \in {None, Torn, Mine(p)}
    BY <1>1, <1>3, <1>4, <1>6
  <2>2. journal'[job'[p]] = None => AllOld(Mine(p))'
    BY <1>1, <1>4, <1>5, <1>6
  <2>3. pc'[p] = "discard" => journal'[job'[p]] = Mine(p) /\ AllOld(Mine(p))'
    BY <1>1, <1>3, <1>4, <1>6
  <2> QED BY <1>4, <2>1, <2>2, <2>3 DEF Progress
<1>8. WriteManifest(p, good, "end") /\ (good = "discard" => todo[p] = {} /\ ~failed[p])
  BY <1>1, <1>3
<1> QED BY <1>1, <1>2, <1>7, <1>8, WriteStep DEF Writing

\* Where a removal leads.
LEMMA RemoveOutcome ==
  ASSUME TypeOK, NEW p \in Proc, job[p] \in Auth, NEW good, NEW bad, RemoveTransaction(p, good, bad)
  PROVE  /\ \/ journal'[job[p]] = None /\ pc'[p] = good
            \/ journal'[job[p]] = journal[job[p]] /\ pc'[p] = bad
         /\ \A a \in Auth \ {job[p]} : journal'[a] = journal[a]
         /\ journal' \in [Auth -> Manifests \union {None, Torn}]
         /\ \E label \in {good, bad} : Goto(p, label)
<1>1. journal \in [Auth -> Manifests \union {None, Torn}]
      /\ pc \in [Proc -> Synchronising \union Recovering \union {"idle"}]
  BY DEF TypeOK
<1>2. PICK o \in Outcomes :
        /\ journal' = IF o = "ok" THEN [journal EXCEPT ![job[p]] = None] ELSE journal
        /\ Goto(p, IF o = "ok" THEN good ELSE bad)
  BY DEF RemoveTransaction
<1>3. CASE o = "ok"
  BY <1>1, <1>2, <1>3 DEF Goto
<1>4. CASE o # "ok"
  BY <1>1, <1>2, <1>4 DEF Goto
<1> QED BY <1>3, <1>4

LEMMA RemoveStep ==
  ASSUME OneSynchroniser, IInv, NEW p \in Proc, pc[p] \in Admitted,
         NEW good \in Writing \ {"discard"}, NEW bad \in Writing \ {"blocked", "discard"},
         RemoveTransaction(p, good, bad), AllOld(Mine(p)) \/ AllNew(Mine(p)),
         good = "blocked" => applied[p] = {} /\ todo[p] = {} /\ ~failed[p],
         UNCHANGED <<file, state, claimed, lock, job, plan, applied, todo, failed, apart, overrun>>,
         Progress(p)'
  PROVE  IInv'
<1>1. job[p] \in Auth /\ CrOf[job[p]] \in Cr
  BY Ranges DEF Admitted, Writing
<1>2. PICK label \in {good, bad} : Goto(p, label)
  BY <1>1, RemoveOutcome DEF IInv
<1>3. /\ pc' \in [Proc -> Synchronising \union Recovering \union {"idle"}]
      /\ pc'[p] = label /\ \A q \in Proc \ {p} : pc'[q] = pc[q]
  BY <1>2, GotoDoes, Labels DEF IInv
<1>4. /\ journal' \in [Auth -> Manifests \union {None, Torn}]
      /\ \A a \in Auth \ {job[p]} : journal'[a] = journal[a]
      /\ journal'[job[p]] \in {None, journal[job[p]]}
  BY <1>1, RemoveOutcome DEF IInv
<1>5. TypeOK'
  BY <1>3, <1>4 DEF IInv, TypeOK
<1>6. Kept(p)
  BY <1>3 DEF Kept
<1>7. Whole'
  <2>1. PICK m, c : m = Mine(p) /\ c = CrOf[job[p]]
    OBVIOUS
  <2>2. Sound(m, c) /\ (AllOld(m) \/ AllNew(m)) /\ c \in Cr
    BY <1>1, <2>1 DEF IInv, Whole
  <2>3. SameAdmitted
    BY <1>6 DEF SameAdmitted, Kept
  <2>4. \A a \in Auth : Readable(a)' => journal'[a] = journal[a]
    BY <1>4 DEF Readable
  <2> QED BY <2>2, <2>3, <2>4, WholeRemove DEF IInv
<1> QED BY <1>2, <1>3, <1>4, <1>5, <1>6, <1>7, InTransaction

LEMMA RemoveTransactionStep ==
  ASSUME OneSynchroniser, IInv, NEW p \in Proc, Remove(p) PROVE IInv'
<1>1. /\ pc[p] = "remove" /\ RemoveTransaction(p, "committed", "rollback")
      /\ UNCHANGED <<file, state, claimed, lock, job, plan, applied, todo, failed, apart, overrun>>
  BY DEF Remove
<1>2. pc[p] \in Admitted
  BY <1>1 DEF Admitted, Writing
<1>3. job[p] \in Auth
  BY <1>1, Ranges
<1>4. AllNew(Mine(p)) /\ journal[job[p]] = Mine(p)
  BY <1>1 DEF IInv, Progress, AllNew
<1>5. Mine(p)' = Mine(p) /\ AllNew(Mine(p))' /\ Mine(p) # None
  BY <1>1, <1>3, <1>4, MineFacts, ManifestFacts DEF Mine, AllNew, IInv
<1>6. \/ journal'[job'[p]] = None /\ pc'[p] = "committed"
      \/ journal'[job'[p]] = Mine(p) /\ pc'[p] = "rollback"
  BY <1>1, <1>3, <1>4, RemoveOutcome DEF IInv
<1>7. Progress(p)'
  BY <1>1, <1>5, <1>6 DEF Progress, IInv
<1> QED BY <1>1, <1>2, <1>4, <1>7, RemoveStep DEF Writing

LEMMA DiscardStep ==
  ASSUME OneSynchroniser, IInv, NEW p \in Proc, Discard(p) PROVE IInv'
<1>1. /\ pc[p] = "discard" /\ RemoveTransaction(p, IF applied[p] = {} THEN "blocked" ELSE "end", "end")
      /\ UNCHANGED <<file, state, claimed, lock, job, plan, applied, todo, failed, apart, overrun>>
  BY DEF Discard
<1>2. pc[p] \in Admitted /\ todo[p] = {} /\ ~failed[p]
  BY <1>1, Ranges DEF Admitted, Writing, Duty, Recovering
<1>3. job[p] \in Auth
  BY <1>1, Ranges
<1>4. AllOld(Mine(p)) /\ journal[job[p]] = Mine(p)
  BY <1>1 DEF IInv, Progress
<1>5. Mine(p)' = Mine(p) /\ AllOld(Mine(p))' /\ Mine(p) # None
  BY <1>1, <1>3, <1>4, MineFacts, ManifestFacts DEF Mine, AllOld, IInv
<1>6. PICK good \in {"blocked", "end"} : good = IF applied[p] = {} THEN "blocked" ELSE "end"
  OBVIOUS
<1>7. \/ journal'[job'[p]] = None /\ pc'[p] = good
      \/ journal'[job'[p]] = Mine(p) /\ pc'[p] = "end"
  BY <1>1, <1>3, <1>4, <1>6, RemoveOutcome DEF IInv
<1>8. Progress(p)'
  BY <1>1, <1>5, <1>6, <1>7 DEF Progress
<1>9. RemoveTransaction(p, good, "end")
      /\ (good = "blocked" => applied[p] = {} /\ todo[p] = {} /\ ~failed[p])
  BY <1>1, <1>2, <1>6
<1> QED BY <1>1, <1>2, <1>4, <1>6, <1>8, <1>9, RemoveStep DEF Writing

-----------------------------------------------------------------------------
(* Steps that write a file.                                                 *)

\* A step of a transaction that may move one of its files to one of its images.
LEMMA FileStep ==
  ASSUME OneSynchroniser, IInv, NEW p \in Proc, pc[p] \in Admitted, Exists(job[p]),
         Readable(job[p]) => journal[job[p]] = Mine(p),
         NEW r \in DOMAIN Mine(p).before, NEW x \in {Mine(p).before[r], Mine(p).after[r]},
         file' = file \/ file' = [file EXCEPT ![r] = x],
         UNCHANGED <<state, journal, claimed, lock, job, plan, apart, overrun>>,
         pc' \in [Proc -> Synchronising \union Recovering \union {"idle"}],
         pc'[p] \in Writing \ {"discard", "blocked"},
         applied' \in [Proc -> SUBSET Ref], todo' \in [Proc -> SUBSET Ref],
         failed' \in [Proc -> BOOLEAN],
         Kept(p), Progress(p)'
  PROVE  IInv'
<1>1. job[p] \in Auth /\ CrOf[job[p]] \in Cr
  BY Ranges DEF Admitted, Writing
<1>2. PICK m, c : m = Mine(p) /\ c = CrOf[job[p]]
  OBVIOUS
<1>3. Sound(m, c) /\ c \in Cr
  BY <1>1, <1>2 DEF IInv, Whole
<1>4. \A a \in Auth : Exists(a) => a = job[p]
  BY <1>1 DEF IInv, Single
<1>5. \A a \in Auth : Readable(a) => journal[a] = m /\ CrOf[a] = c
  BY <1>2, <1>4 DEF Exists, Readable
<1>6. ~NoTransaction
  BY <1>1 DEF NoTransaction
<1>7. ASSUME NEW q \in Proc, pc'[q] \in Admitted PROVE Mine(q)' = m /\ CrOf[job[q]]' = c
  <2>1. q = p
    <3>1. pc[q] \in Admitted
      BY <1>7 DEF Kept
    <3> QED BY <3>1, OneAtWork, Labels DEF IInv
  <2> QED BY <1>2, <2>1 DEF Mine
<1>8. PICK z : z = x
  OBVIOUS
<1>9. z \in {m.before[r], m.after[r]} /\ (file' = file \/ file' = [file EXCEPT ![r] = z])
      /\ r \in DOMAIN m.before
  BY <1>2, <1>8
<1>10. Whole' /\ file' \in Images(Ref)
  BY <1>3, <1>5, <1>6, <1>7, <1>9, WholeFile DEF IInv
<1>11. TypeOK'
  BY <1>10 DEF IInv, TypeOK
<1> QED BY <1>10, <1>11, InTransaction

LEMMA ReplaceTargetStep ==
  ASSUME OneSynchroniser, IInv, NEW p \in Proc, ReplaceTarget(p) PROVE IInv'
<1> DEFINE m == Mine(p)
           T == DOMAIN m.before
<1>1. pc[p] = "next" /\ UNCHANGED <<state, journal, claimed, lock, job, plan,
                                    failed, apart, overrun>>
  BY DEF ReplaceTarget
<1>2. PICK r \in Ref, o \in Outcomes :
       /\ IsFirst(r, Targets(plan[p], CrOf[job[p]]) \ applied[p])
       /\ \/ /\ o = "ok"
             /\ file' = [file EXCEPT ![r] = After(plan[p], CrOf[job[p]], r)]
             /\ applied' = [applied EXCEPT ![p] = @ \union {r}]
             /\ todo' = [todo EXCEPT ![p] = @ \union {r}]
             /\ Goto(p, "receipt")
          \/ o = "lost" /\ Goto(p, "rollback") /\ UNCHANGED <<file, applied, todo>>
  BY DEF ReplaceTarget
<1>3. /\ pc[p] \in Admitted /\ job[p] \in Auth
      /\ m \in Manifests /\ m # None /\ T = Targets(plan[p], CrOf[job[p]])
      /\ m.after[r] = After(plan[p], CrOf[job[p]], r) /\ r \in T /\ r \notin applied[p]
  <2>1. pc[p] \in Admitted /\ job[p] \in Auth
    BY <1>1, Ranges DEF Admitted, Writing
  <2> QED BY <1>2, <2>1, MineFacts, ManifestFacts DEF IInv, IsFirst
<1>4. /\ journal[job[p]] = m /\ todo[p] = applied[p] /\ applied[p] \subseteq T /\ ~failed[p]
      /\ \A s \in T : file[s] = IF s \in applied[p] THEN m.after[s] ELSE m.before[s]
  BY <1>1 DEF IInv, Progress
<1>5. Exists(job[p]) /\ Mine(p)' = m /\ T \subseteq Ref
  BY <1>1, <1>3, <1>4, ManifestFacts DEF Exists, Mine
<1>6. /\ applied \in [Proc -> SUBSET Ref] /\ todo \in [Proc -> SUBSET Ref]
      /\ failed \in [Proc -> BOOLEAN]
      /\ file \in [Ref -> SUBSET Cr]
  BY DEF IInv, TypeOK, Images
<1>7. PICK label \in {"receipt", "rollback"} : Goto(p, label)
  BY <1>2
<1>8. /\ pc' \in [Proc -> Synchronising \union Recovering \union {"idle"}]
      /\ pc'[p] = label /\ \A q \in Proc \ {p} : pc'[q] = pc[q]
  BY <1>7, GotoDoes, Labels DEF IInv, Writing
<1>9. CASE /\ file' = [file EXCEPT ![r] = m.after[r]]
           /\ applied' = [applied EXCEPT ![p] = @ \union {r}]
           /\ todo' = [todo EXCEPT ![p] = @ \union {r}]
           /\ pc'[p] = "receipt"
  <2>1. Progress(p)'
    BY <1>1, <1>3, <1>4, <1>5, <1>6, <1>9 DEF Progress
  <2>2. Kept(p)
    BY <1>1, <1>6, <1>8, <1>9 DEF Kept
  <2>3. applied' \in [Proc -> SUBSET Ref] /\ todo' \in [Proc -> SUBSET Ref]
        /\ failed' \in [Proc -> BOOLEAN]
    BY <1>1, <1>6, <1>9
  <2> QED BY <1>1, <1>3, <1>4, <1>5, <1>8, <1>9, <2>1, <2>2, <2>3, FileStep DEF Writing
<1>10. CASE UNCHANGED <<file, applied, todo>> /\ pc'[p] = "rollback"
  <2>1. Progress(p)'
    BY <1>1, <1>3, <1>4, <1>5, <1>10 DEF Progress
  <2>2. Kept(p)
    BY <1>1, <1>8, <1>10 DEF Kept
  <2> QED BY <1>1, <1>3, <1>4, <1>5, <1>6, <1>8, <1>10, <2>1, <2>2, FileStep DEF Writing
<1>11. pc \in [Proc -> Synchronising \union Recovering \union {"idle"}]
  BY DEF IInv, TypeOK
<1> QED BY <1>2, <1>3, <1>9, <1>10, <1>11 DEF Goto

LEMMA RollbackTargetStep ==
  ASSUME OneSynchroniser, IInv, NEW p \in Proc, RollbackTarget(p) PROVE IInv'
<1> DEFINE m == Mine(p)
           T == DOMAIN m.before
<1>1. /\ pc[p] = "rollback"
      /\ UNCHANGED <<state, journal, claimed, lock, pc, job, plan, applied, apart, overrun>>
  BY DEF RollbackTarget
<1>2. PICK r \in Ref, o \in Outcomes :
       /\ IsLast(r, todo[p])
       /\ todo' = [todo EXCEPT ![p] = @ \ {r}]
       /\ file' = IF o = "ok" THEN [file EXCEPT ![r] = plan[p].file[r]] ELSE file
       /\ failed' = [failed EXCEPT ![p] = @ \/ o = "lost"]
  BY DEF RollbackTarget
<1>3. /\ journal[job[p]] \in {None, Torn, m} /\ todo[p] \subseteq T
      /\ journal[job[p]] = None => todo[p] = {} /\ ~failed[p]
      /\ ~failed[p] => \A s \in T \ todo[p] : file[s] = m.before[s]
  BY <1>1 DEF IInv, Progress
<1>4. r \in todo[p] /\ r \in T
  BY <1>2, <1>3 DEF IsLast
<1>5. /\ pc[p] \in Admitted /\ job[p] \in Auth /\ m.before[r] = plan[p].file[r] /\ T \subseteq Ref
  <2>1. pc[p] \in Admitted /\ job[p] \in Auth
    BY <1>1, Ranges DEF Admitted, Writing
  <2> QED BY <1>4, <2>1, MineFacts, ManifestFacts DEF IInv
<1>6. /\ Exists(job[p]) /\ Mine(p)' = m
      /\ Readable(job[p]) => journal[job[p]] = m
  BY <1>1, <1>3, <1>4 DEF Exists, Readable, Mine
<1>7. /\ applied \in [Proc -> SUBSET Ref] /\ todo \in [Proc -> SUBSET Ref]
      /\ failed \in [Proc -> BOOLEAN]
      /\ file \in [Ref -> SUBSET Cr]
         /\ pc \in [Proc -> Synchronising \union Recovering \union {"idle"}]
  BY DEF IInv, TypeOK, Images
<1>8. Kept(p)
  BY <1>1, <1>2, <1>7 DEF Kept
<1>9. todo' \in [Proc -> SUBSET Ref] /\ failed' \in [Proc -> BOOLEAN]
  BY <1>2, <1>7
<1>10. o \in {"ok", "lost"}
  BY DEF Outcomes
<1>11. todo'[p] = todo[p] \ {r} /\ (failed'[p] <=> failed[p] \/ o = "lost")
  BY <1>2, <1>7
<1>12. ~failed'[p] => \A s \in T \ todo'[p] : file'[s] = m.before[s]
  BY <1>2, <1>3, <1>5, <1>7, <1>10, <1>11
<1>13. Progress(p)'
  BY <1>1, <1>3, <1>4, <1>6, <1>11, <1>12 DEF Progress
<1>14. file' = file \/ file' = [file EXCEPT ![r] = m.before[r]]
  BY <1>2, <1>5
<1> QED BY <1>1, <1>4, <1>5, <1>6, <1>7, <1>8, <1>9, <1>13, <1>14, FileStep DEF Writing

-----------------------------------------------------------------------------
(* Recoveries.                                                              *)

\* What a step of a recovery must show for the process itself.
LEMMA InRecovery ==
  ASSUME IInv, NEW p \in Proc, pc'[p] \in Recovering, TypeOK', Kept(p), Whole', Restoring(p)',
         lock' = p, lock \in {None, p}, job'[p] \in Auth, applied'[p] = {},
         \A a \in Auth : Exists(a)' => Exists(a),
         pc[p] \in Holding \/ UNCHANGED <<file, journal>>
  PROVE  IInv'
<1>1. Duty(p)'
  BY Labels DEF Duty, Recovering, Synchronising, Early, Waiting, Admitted, Writing
<1>2. Employed'
  BY <1>1, EmployedKept DEF IInv
<1>3. pc'[p] \notin {"lock", "admit", "journal"} \union Writing
  BY DEF Recovering, Writing
<1>4. Single'
  BY <1>3 DEF IInv, Single, Kept, NoTransaction
<1>5. \A q \in Proc \ {p} : Progress(q)' /\ Restoring(q)'
  BY OthersGoOn DEF IInv
<1>6. Progress(p)'
  BY <1>3 DEF Progress, Writing
<1> QED BY <1>2, <1>4, <1>5, <1>6 DEF IInv

LEMMA StartRecoveryStep ==
  ASSUME OneSynchroniser, IInv, NEW p \in Proc, NEW a \in Auth, NEW action \in {"resume", "undo"},
         StartRecovery(p, a, action)
  PROVE  IInv'
<1>1. /\ pc[p] = "idle" /\ Readable(a) /\ lock = None /\ lock' = p
      /\ job' = [job EXCEPT ![p] = a]
      /\ todo' = [todo EXCEPT ![p] = DOMAIN journal[a].before]
      /\ Goto(p, action)
      /\ UNCHANGED <<file, state, journal, claimed, plan, applied, failed, apart, overrun, faults>>
  BY DEF StartRecovery
<1>2. /\ pc' \in [Proc -> Synchronising \union Recovering \union {"idle"}]
      /\ pc'[p] = action /\ \A q \in Proc \ {p} : pc'[q] = pc[q]
  BY <1>1, GotoDoes DEF IInv, Recovering
<1>3. journal[a] \in Manifests
  BY <1>1 DEF IInv, TypeOK, Readable
<1>4. DOMAIN journal[a].before \subseteq Ref
  BY <1>3, ManifestFacts
<1>5. TypeOK'
  BY <1>1, <1>2, <1>4 DEF IInv, TypeOK
<1>6. Kept(p)
  BY <1>1, <1>2 DEF Kept, IInv, TypeOK
<1>7. job'[p] = a /\ todo'[p] = DOMAIN journal[a].before
  BY <1>1 DEF IInv, TypeOK
<1>8. applied'[p] = {} /\ ~failed'[p]
  BY <1>1, Ranges DEF Duty, Writing, Recovering
<1>9. Restoring(p)'
  BY <1>1, <1>2, <1>7, <1>8 DEF Restoring, Readable
<1>10. SameAdmitted
  BY <1>2, <1>6 DEF SameAdmitted, Kept, Admitted, Writing
<1>11. Whole'
  BY <1>1, <1>10, WholeKept DEF IInv
<1>12. \A b \in Auth : Exists(b)' => Exists(b)
  BY <1>1 DEF Exists
<1> QED BY <1>1, <1>2, <1>5, <1>6, <1>7, <1>8, <1>9, <1>11, <1>12, InRecovery DEF Recovering

\* What a recovery in progress knows.
LEMMA RecoveryFacts ==
  ASSUME IInv, NEW p \in Proc, pc[p] \in Recovering \ {"leave"}
  PROVE  /\ job[p] \in Auth /\ CrOf[job[p]] \in Cr /\ lock = p /\ applied[p] = {}
         /\ Readable(job[p]) /\ Exists(job[p]) /\ journal[job[p]] \in Manifests
         /\ Sound(journal[job[p]], CrOf[job[p]])
         /\ \A a \in Auth : Exists(a) => a = job[p]
<1>1. job[p] \in Auth /\ CrOf[job[p]] \in Cr /\ lock = p /\ applied[p] = {}
  BY Ranges, Labels DEF Duty, Recovering, Writing
<1>2. Readable(job[p]) /\ Exists(job[p])
  BY DEF IInv, Restoring, Readable, Exists
<1> QED BY <1>1, <1>2 DEF IInv, Whole, Single, TypeOK, Readable

LEMMA MarkRecoveryStep ==
  ASSUME OneSynchroniser, IInv, NEW p \in Proc, MarkRecovery(p) PROVE IInv'
<1>1. /\ pc[p] \in {"resume", "undo"}
      /\ UNCHANGED <<file, state, journal, claimed, lock, job, plan,
                      applied, todo, failed, apart, overrun>>
  BY DEF MarkRecovery
<1>2. PICK label \in {"leave", "resuming", "undoing"} :
        /\ Goto(p, label)
        /\ pc[p] = "resume" => label # "undoing"
        /\ pc[p] = "undo" => label # "resuming"
  BY <1>1 DEF MarkRecovery
<1>3. /\ pc' \in [Proc -> Synchronising \union Recovering \union {"idle"}]
      /\ pc'[p] = label /\ \A q \in Proc \ {p} : pc'[q] = pc[q]
  BY <1>2, GotoDoes DEF IInv, Recovering
<1>4. job[p] \in Auth /\ lock = p /\ applied[p] = {} /\ Readable(job[p])
  BY <1>1, RecoveryFacts DEF Recovering
<1>5. todo[p] = DOMAIN journal[job[p]].before
  BY <1>1 DEF IInv, Restoring
<1>6. TypeOK'
  BY <1>1, <1>3 DEF IInv, TypeOK
<1>7. Kept(p)
  BY <1>1, <1>3 DEF Kept
<1>8. SameAdmitted
  BY <1>1, <1>2, <1>3 DEF SameAdmitted, Admitted, Writing
<1>9. Whole'
  BY <1>1, <1>8, WholeKept DEF IInv
<1>10. Restoring(p)'
  BY <1>1, <1>2, <1>3, <1>4, <1>5 DEF Restoring, Readable
<1>11. \A a \in Auth : Exists(a)' => Exists(a)
  BY <1>1 DEF Exists
<1> QED BY <1>1, <1>2, <1>3, <1>4, <1>6, <1>7, <1>9, <1>10, <1>11, InRecovery DEF Recovering

LEMMA RecoverTargetStep ==
  ASSUME OneSynchroniser, IInv, NEW p \in Proc, RecoverTarget(p) PROVE IInv'
<1> DEFINE m == journal[job[p]]
<1>1. /\ pc[p] \in {"resuming", "undoing"}
      /\ UNCHANGED <<state, journal, claimed, lock, pc, job, plan, applied, apart, overrun>>
  BY DEF RecoverTarget
<1>2. PICK wanted : wanted = IF pc[p] = "resuming" THEN m.after ELSE m.before
  OBVIOUS
<1>3. PICK r \in Ref :
        /\ r \in todo[p]
        /\ todo' = [todo EXCEPT ![p] = @ \ {r}]
        /\ \/ /\ file[r] = wanted[r]
              /\ UNCHANGED <<file, failed>>
           \/ /\ file[r] \notin {m.before[r], m.after[r]}
              /\ failed' = [failed EXCEPT ![p] = TRUE]
              /\ UNCHANGED file
           \/ \E o \in Outcomes :
                /\ file' = IF o = "ok" THEN [file EXCEPT ![r] = wanted[r]] ELSE file
                /\ failed' = [failed EXCEPT ![p] = @ \/ o = "lost"]
  BY <1>1, <1>2 DEF RecoverTarget, IsFirst, IsLast
<1>4. /\ job[p] \in Auth /\ CrOf[job[p]] \in Cr /\ lock = p /\ applied[p] = {}
      /\ Readable(job[p]) /\ Exists(job[p]) /\ m \in Manifests /\ Sound(m, CrOf[job[p]])
      /\ \A a \in Auth : Exists(a) => a = job[p]
  BY <1>1, RecoveryFacts DEF Recovering
<1>5. todo[p] \subseteq DOMAIN m.before
      /\ (~failed[p] => \A s \in DOMAIN m.before \ todo[p] : file[s] = wanted[s])
  BY <1>1, <1>2 DEF IInv, Restoring, Recovering
<1>6. /\ todo \in [Proc -> SUBSET Ref] /\ failed \in [Proc -> BOOLEAN]
      /\ file \in [Ref -> SUBSET Cr]
         /\ pc \in [Proc -> Synchronising \union Recovering \union {"idle"}]
  BY DEF IInv, TypeOK, Images
<1>7. todo' \in [Proc -> SUBSET Ref] /\ todo'[p] = todo[p] \ {r}
  BY <1>3, <1>6
<1>8. /\ failed' \in [Proc -> BOOLEAN] /\ \A q \in Proc \ {p} : failed'[q] = failed[q]
      /\ file' = file \/ file' = [file EXCEPT ![r] = wanted[r]]
      /\ ~failed'[p] => ~failed[p] /\ file'[r] = wanted[r]
  <2>1. CASE file[r] = wanted[r] /\ UNCHANGED <<file, failed>>
    BY <1>6, <2>1
  <2>2. CASE failed' = [failed EXCEPT ![p] = TRUE] /\ UNCHANGED file
    BY <1>6, <2>2
  <2>3. CASE \E o \in Outcomes :
               /\ file' = IF o = "ok" THEN [file EXCEPT ![r] = wanted[r]] ELSE file
               /\ failed' = [failed EXCEPT ![p] = @ \/ o = "lost"]
    <3>1. PICK o \in {"ok", "lost"} :
               /\ file' = IF o = "ok" THEN [file EXCEPT ![r] = wanted[r]] ELSE file
               /\ failed' = [failed EXCEPT ![p] = @ \/ o = "lost"]
      BY <2>3 DEF Outcomes
    <3> QED BY <1>6, <3>1
  <2> QED BY <1>3, <2>1, <2>2, <2>3
<1>9. Kept(p)
  BY <1>1, <1>3, <1>6, <1>8 DEF Kept
<1>10. SameAdmitted
  BY <1>1 DEF SameAdmitted
<1>11. Whole' /\ file' \in Images(Ref)
  <2>1. PICK n, c, x : n = m /\ c = CrOf[job[p]] /\ x = wanted[r]
    OBVIOUS
  <2>2. r \in DOMAIN n.before /\ x \in {n.before[r], n.after[r]} /\ Sound(n, c) /\ c \in Cr
    BY <1>2, <1>3, <1>4, <1>5, <2>1
  <2>3. file' = file \/ file' = [file EXCEPT ![r] = x]
    BY <1>8, <2>1
  <2>4. ~NoTransaction /\ \A a \in Auth : Readable(a) => journal[a] = n /\ CrOf[a] = c
    BY <1>4, <2>1 DEF NoTransaction, Exists, Readable
  <2>5. \A q \in Proc : pc'[q] \notin Admitted
    <3>1. ASSUME NEW q \in Proc, pc[q] \in Admitted PROVE FALSE
      <4>1. q # p
        BY <1>1, <3>1 DEF Admitted, Writing
      <4> QED BY <1>1, <3>1, <4>1, Labels, Exclusive DEF IInv, Recovering
    <3> QED BY <1>1, <3>1
  <2> QED BY <1>1, <2>2, <2>3, <2>4, <2>5, WholeFile DEF IInv
<1>12. TypeOK'
  BY <1>1, <1>6, <1>7, <1>8, <1>11 DEF IInv, TypeOK
<1>13. ~failed'[p] => \A s \in DOMAIN m.before \ todo'[p] : file'[s] = wanted[s]
  <2>1. DOMAIN m.before \subseteq Ref
    BY <1>4, ManifestFacts
  <2>2. \A s \in Ref \ {r} : file'[s] = file[s]
    BY <1>6, <1>8
  <2> QED BY <1>5, <1>7, <1>8, <2>1, <2>2
<1>14. Restoring(p)'
  <2>1. pc'[p] \in {"resuming", "undoing"} /\ journal'[job'[p]] = m /\ Readable(job[p])'
        /\ todo'[p] \subseteq DOMAIN m.before
    BY <1>1, <1>4, <1>5, <1>7 DEF Readable
  <2> QED BY <1>1, <1>2, <1>13, <2>1 DEF Restoring, Recovering
<1>15. \A a \in Auth : Exists(a)' => Exists(a)
  BY <1>1 DEF Exists
<1> QED BY <1>1, <1>4, <1>9, <1>11, <1>12, <1>14, <1>15, InRecovery DEF Recovering, Holding

LEMMA FinishRecoveryStep ==
  ASSUME OneSynchroniser, IInv, NEW p \in Proc, FinishRecovery(p) PROVE IInv'
<1> DEFINE m == journal[job[p]]
<1>1. /\ pc[p] \in {"resuming", "undoing"} /\ todo[p] = {}
      /\ UNCHANGED <<file, state, claimed, lock, job, plan, applied, todo, failed, apart, overrun>>
  BY DEF FinishRecovery
<1>2. /\ job[p] \in Auth /\ CrOf[job[p]] \in Cr /\ lock = p /\ applied[p] = {}
      /\ Sound(m, CrOf[job[p]])
  BY <1>1, RecoveryFacts DEF Recovering
<1>3. /\ Goto(p, "leave") /\ journal' \in [Auth -> Manifests \union {None, Torn}]
      /\ \/ failed[p] /\ journal' = journal
         \/ ~failed[p] /\ \A a \in Auth : journal'[a] \in {None, journal[a]}
  <2>1. CASE failed[p] /\ Goto(p, "leave") /\ UNCHANGED <<journal, faults>>
    BY <2>1 DEF IInv, TypeOK
  <2>2. CASE ~failed[p] /\ RemoveTransaction(p, "leave", "leave")
    BY <1>2, <2>2, RemoveOutcome DEF IInv
  <2> QED BY <2>1, <2>2 DEF FinishRecovery
<1>4. /\ pc' \in [Proc -> Synchronising \union Recovering \union {"idle"}]
      /\ pc'[p] = "leave" /\ \A q \in Proc \ {p} : pc'[q] = pc[q]
  BY <1>3, GotoDoes DEF IInv, Recovering
<1>5. TypeOK'
  BY <1>1, <1>3, <1>4 DEF IInv, TypeOK
<1>6. Kept(p)
  BY <1>1, <1>4 DEF Kept
<1>7. SameAdmitted
  BY <1>1, <1>4 DEF SameAdmitted, Admitted, Writing
<1>8. Whole'
  <2>1. CASE journal' = journal
    BY <1>1, <1>7, <2>1, WholeKept DEF IInv
  <2>2. CASE ~failed[p] /\ \A a \in Auth : journal'[a] \in {None, journal[a]}
    <3>1. PICK n, c : n = m /\ c = CrOf[job[p]]
      OBVIOUS
    <3>2. AllOld(n) \/ AllNew(n)
      BY <1>1, <2>2, <3>1 DEF IInv, Restoring, AllOld, AllNew
    <3>3. \A a \in Auth : Readable(a)' => journal'[a] = journal[a]
      BY <2>2 DEF Readable
    <3> QED BY <1>1, <1>2, <1>7, <3>1, <3>2, <3>3, WholeRemove DEF IInv
  <2> QED BY <1>3, <2>1, <2>2
<1>9. \A a \in Auth : Exists(a)' => Exists(a)
  BY <1>3 DEF Exists
<1>10. Restoring(p)'
  BY <1>4 DEF Restoring
<1> QED BY <1>1, <1>2, <1>4, <1>5, <1>6, <1>8, <1>9, <1>10, InRecovery DEF Recovering, Holding

-----------------------------------------------------------------------------
(* The invariant, and what it says.                                         *)

LEMMA InitIInv == Init => IInv
<1> SUFFICES ASSUME Init PROVE IInv
  OBVIOUS
<1>1. \A p \in Proc : pc[p] = "idle"
  BY DEF Init
<1>2. TypeOK
  <2>1. plan \in [Proc -> Seen]
    BY NoPlanType DEF Init
  <2>2. file \in Images(Ref)
    BY DEF Init, Images
  <2> QED BY <2>1, <2>2 DEF Init, TypeOK
<1>3. Employed
   BY <1>1 DEF Init, Employed, Duty, Synchronising, Early, Waiting, Holding, Admitted, Writing,
     Recovering
<1>4. NoTransaction
  BY DEF Init, NoTransaction, Exists
<1>5. Single
  BY <1>1, <1>4 DEF Single, NoTransaction, Writing
<1>6. Whole
  BY <1>1, <1>4 DEF Init, Whole, Agree, NoTransaction, Exists, Readable, Admitted, Writing, Ref
<1>7. \A p \in Proc : Progress(p) /\ Restoring(p)
  BY <1>1 DEF Progress, Restoring, Recovering
<1> QED BY <1>2, <1>3, <1>5, <1>6, <1>7 DEF IInv

LEMMA NextIInv == OneSynchroniser /\ IInv /\ [Next]_vars => IInv'
<1> SUFFICES ASSUME OneSynchroniser, IInv, [Next]_vars PROVE IInv'
  OBVIOUS
<1>1. CASE UNCHANGED vars
  <2>1. UNCHANGED <<file, state, journal, claimed, lock, pc, job, plan,
                  applied, todo, failed, apart, overrun>>
    BY <1>1 DEF vars, local
  <2>2. TypeOK' /\ Employed' /\ Single'
    BY <2>1 DEF IInv, TypeOK, Employed, Duty, Single, NoTransaction, Exists
  <2>3. Whole'
    BY <2>1, WholeKept DEF IInv, SameAdmitted
  <2>4. ASSUME NEW p \in Proc PROVE Progress(p)' /\ Restoring(p)'
    <3>1. Mine(p)' = Mine(p) /\ journal'[job'[p]] = journal[job[p]]
      BY <2>1 DEF Mine
    <3>2. Progress(p)'
      BY <2>1, <3>1 DEF IInv, Progress, AllOld, AllNew
    <3>3. Restoring(p)'
      BY <2>1, <3>1 DEF IInv, Restoring, Readable
    <3> QED BY <3>2, <3>3
  <2> QED BY <2>2, <2>3, <2>4 DEF IInv
<1>2. ASSUME NEW p \in Proc, NEW a \in Auth, Plan(p, a) PROVE IInv'
  BY <1>2, PlanStep
<1>3. ASSUME NEW p \in Proc, NEW a \in Auth, NEW action \in {"resume", "undo"},
             StartRecovery(p, a, action)
      PROVE IInv'
  BY <1>3, StartRecoveryStep
<1>4. ASSUME NEW p \in Proc, Crash(p) PROVE IInv'
  BY <1>4, CrashStep
<1>5. ASSUME NEW p \in Proc, Step(p) PROVE IInv'
  BY <1>5, PrepareStep, LockToValidateStep, ValidateStep, WriteStateStep, CheckUnresolvedStep,
     LockToApplyStep, AdmitStep, OpenTransactionStep, ReplaceTargetStep, WriteReceiptStep,
     CommitStep,
     RemoveTransactionStep, RollbackTargetStep, FinishRollbackStep, DiscardStep, ReleaseStep,
     CompensateStep, MarkRecoveryStep, RecoverTargetStep, FinishRecoveryStep, LeaveRecoveryStep
  DEF Step
<1> QED BY <1>1, <1>2, <1>3, <1>4, <1>5 DEF Next

(* The types are kept, and a process at work in a transaction holds the     *)
(* lock file: the invariant of the module holds in every behaviour.         *)
THEOREM Invariance == ASSUME OneSynchroniser PROVE Spec => []IInv
<1>1. Init => IInv
  BY InitIInv
<1>2. IInv /\ [Next]_vars => IInv'
  BY NextIInv
<1> QED BY <1>1, <1>2, PTL DEF Spec

(* With one synchronising process, whatever it, its rollbacks, the          *)
(* recoveries of other processes, faults and crashes do: when no            *)
(* transaction is left, the index shows a change request exactly when its   *)
(* record does, unless records moved between a plan and its writes.         *)
THEOREM IndexHolds == ASSUME OneSynchroniser PROVE Spec => []IndexAgrees
<1>1. IInv => IndexAgrees
  BY DEF IInv, Whole, IndexAgrees, Quiet, NoTransaction, Agree
<1> QED BY <1>1, Invariance, PTL

-----------------------------------------------------------------------------
\* Both images of a file show the same change requests, its own apart.
LEMMA OnlyItsOwn ==
  ASSUME TypeOK, NEW m, NEW c \in Cr, Sound(m, c), NEW r \in DOMAIN m.before,
         NEW x \in {m.before[r], m.after[r]}, NEW d \in Cr \ overrun, d \in file[r], d \notin x
  PROVE  d = c
<1> SUFFICES ASSUME d # c PROVE FALSE
  OBVIOUS
<1>1. r \in {c, Index} /\ r \in Ref /\ file[r] \in {m.before[r], m.after[r]}
  BY DEF Sound, Ref
<1>2. CASE r = c
  <2>1. file[r] \subseteq {r}
    BY <1>1, <1>2 DEF TypeOK, Images
  <2> QED BY <1>2, <2>1
<1>3. CASE r = Index
  <2>1. d \notin DOMAIN m.before
    BY IndexAssumption DEF Sound
  <2>2. Old(m, d) = file[d] /\ New(m, d) = file[d]
    BY <2>1 DEF Old, New
  <2>3. Old(m, Index) = m.before[r] /\ New(m, Index) = m.after[r]
    BY <1>3 DEF Old, New
  <2>4. d \in m.before[r] <=> d \in m.after[r]
    BY <2>2, <2>3 DEF Sound
  <2> QED BY <1>1, <2>4
<1> QED BY <1>1, <1>2, <1>3

\* A step that writes a file moves a file of its transaction to one of its images.
LEMMA FileMoves ==
  ASSUME IInv, NEW p \in Proc, ReplaceTarget(p) \/ RollbackTarget(p) \/ RecoverTarget(p)
  PROVE  /\ job[p] \in Auth /\ CrOf[job[p]] \in Cr
         /\ \E m \in Manifests : \E r \in DOMAIN m.before : \E x \in {m.before[r], m.after[r]} :
              Sound(m, CrOf[job[p]]) /\ (file' = file \/ file' = [file EXCEPT ![r] = x])
<1>1. job[p] \in Auth /\ CrOf[job[p]] \in Cr
  BY Ranges DEF ReplaceTarget, RollbackTarget, RecoverTarget
<1>2. /\ Mine(p) \in Manifests
      /\ DOMAIN Mine(p).before = Targets(plan[p], CrOf[job[p]])
      /\ \A r \in DOMAIN Mine(p).before :
           Mine(p).before[r] = plan[p].file[r] /\ Mine(p).after[r] = After(plan[p], CrOf[job[p]], r)
  BY <1>1, MineFacts DEF IInv
<1>3. pc[p] \in Admitted => Sound(Mine(p), CrOf[job[p]])
  BY DEF IInv, Whole
<1>4. CASE ReplaceTarget(p)
  <2>1. PICK r \in Ref :
          /\ r \in DOMAIN Mine(p).before
          /\ file' = file \/ file' = [file EXCEPT ![r] = After(plan[p], CrOf[job[p]], r)]
    BY <1>2, <1>4 DEF ReplaceTarget, IsFirst
  <2>2. pc[p] \in Admitted
    BY <1>4 DEF ReplaceTarget, Admitted, Writing
  <2> QED BY <1>1, <1>2, <1>3, <2>1, <2>2
<1>5. CASE RollbackTarget(p)
  <2>1. pc[p] \in Admitted /\ todo[p] \subseteq DOMAIN Mine(p).before
    BY <1>5 DEF RollbackTarget, Admitted, Writing, IInv, Progress
  <2>2. PICK r \in Ref :
          /\ r \in DOMAIN Mine(p).before
          /\ file' = file \/ file' = [file EXCEPT ![r] = plan[p].file[r]]
    BY <1>5, <2>1 DEF RollbackTarget, IsLast
  <2> QED BY <1>1, <1>2, <1>3, <2>1, <2>2
<1>6. CASE RecoverTarget(p)
  <2> DEFINE m == journal[job[p]]
  <2>1. pc[p] \in {"resuming", "undoing"}
    BY <1>6 DEF RecoverTarget
  <2>2. m \in Manifests /\ Sound(m, CrOf[job[p]]) /\ todo[p] \subseteq DOMAIN m.before
    BY <2>1, RecoveryFacts DEF Recovering, IInv, Restoring
  <2>3. PICK r \in todo[p] : file' = file \/ file' = [file EXCEPT ![r] = m.after[r]]
                                          \/ file' = [file EXCEPT ![r] = m.before[r]]
    BY <1>6 DEF RecoverTarget, IsFirst, IsLast
  <2> QED BY <1>1, <2>2, <2>3
<1> QED BY <1>4, <1>5, <1>6

(* With one synchronising process, no write, rollback or recovery takes a   *)
(* change request out of a CR file on whose transaction it does not work,   *)
(* unless that change request moved between a plan and its writes.          *)
THEOREM UndoesItsOwn == ASSUME OneSynchroniser PROVE Spec => NoForeignUndo
<1>1. ASSUME IInv, [Next]_vars
      PROVE  [\A r \in Ref : \A c \in (file[r] \ file'[r]) \ overrun :
                \E p \in Proc : job[p] # None /\ CrOf[job[p]] = c]_vars
  <2>1. SUFFICES ASSUME NEW r \in Ref, NEW c \in (file[r] \ file'[r]) \ overrun
                 PROVE  \E p \in Proc : job[p] # None /\ CrOf[job[p]] = c
    OBVIOUS
  <2>2. file' # file /\ Next
    BY <1>1 DEF vars
  <2>3. PICK p \in Proc : ReplaceTarget(p) \/ RollbackTarget(p) \/ RecoverTarget(p)
     BY <2>2, ZenonT(60) DEF Next, Step, Plan, StartRecovery, Crash, Prepare, LockToValidate,
       Validate, WriteState,
       CheckUnresolved, LockToApply, Admit, OpenTransaction, WriteReceipt, Commit, Remove,
       FinishRollback,
       Discard, Release, Compensate, MarkRecovery, FinishRecovery, LeaveRecovery
  <2>4. job[p] \in Auth /\ CrOf[job[p]] \in Cr
    BY <1>1, <2>3, FileMoves
  <2>5. PICK m \in Manifests : \E s \in DOMAIN m.before : \E x \in {m.before[s], m.after[s]} :
               Sound(m, CrOf[job[p]]) /\ (file' = file \/ file' = [file EXCEPT ![s] = x])
    BY <1>1, <2>3, FileMoves
  <2>6. PICK s \in DOMAIN m.before : \E x \in {m.before[s], m.after[s]} :
               Sound(m, CrOf[job[p]]) /\ (file' = file \/ file' = [file EXCEPT ![s] = x])
    BY <2>5
  <2>7. PICK x \in {m.before[s], m.after[s]} :
               Sound(m, CrOf[job[p]]) /\ (file' = file \/ file' = [file EXCEPT ![s] = x])
    BY <2>6
  <2>8. file \in [Ref -> SUBSET Cr]
    BY <1>1 DEF IInv, TypeOK, Images
  <2>9. r = s /\ c \notin x /\ c \in file[r] /\ c \in Cr \ overrun
    BY <2>2, <2>7, <2>8
  <2>10. c = CrOf[job[p]]
    BY <1>1, <2>4, <2>7, <2>9, OnlyItsOwn DEF IInv
  <2> QED BY <2>4, <2>10, NoneAssumption
<1> QED BY <1>1, Invariance, PTL DEF Spec, NoForeignUndo

-----------------------------------------------------------------------------
(* The two channels.                                                        *)

\* State is what the synchronising process planned on, with its change once it wrote it.
Planned(p) ==
  LET c == CrOf[job[p]] IN
  /\ pc[p] \in Synchronising =>
       /\ plan[p].both => c \in Shown \ plan[p].state
       /\ ~plan[p].both /\ c \in Shown => c \in plan[p].state
       /\ pc[p] \in Early => plan[p].both
       /\ state = IF Between(p) THEN plan[p].state \union {c} ELSE plan[p].state
  /\ pc[p] \notin Synchronising => ~plan[p].both
  /\ pc[p] \in Admitted => c \in overrun \union New(Mine(p), c)

AsPlanned == \A p \in Proc : Planned(p)

\* State without the change of a synchronisation in progress.
Base(c) == c \in state /\ \A p \in Proc : Between(p) => CrOf[job[p]] # c
Writes(c) == \E p \in Proc : Between(p) /\ pc[p] \in Admitted /\ CrOf[job[p]] = c
Done(c) == \E p \in Proc : pc[p] = "committed" /\ CrOf[job[p]] = c
Scope == Shown \ (apart \union overrun)

\* State agrees with the old generation, and where it was not written with the new one too.
Matches(m) ==
  \A c \in Scope : /\ Base(c) <=> c \in Old(m, c)
                   /\ Writes(c) \/ (Base(c) <=> c \in New(m, c))

CInv ==
  /\ AsPlanned
  /\ NoTransaction => \A c \in Scope : Done(c) \/ (Base(c) <=> c \in file[c])
  /\ \A a \in Auth : Readable(a) => Matches(journal[a])
  /\ \A p \in Proc : pc[p] \in Admitted \ {"committed"} => Matches(Mine(p))

LEMMA PlannedKept ==
  ASSUME OneSynchroniser, IInv, AsPlanned, NEW p \in Proc, Kept(p), Planned(p)',
         state' = state \/ Task[p] # {}, pc[p] \in Holding \/ file' = file,
         overrun \subseteq overrun'
  PROVE  AsPlanned'
<1> SUFFICES ASSUME NEW q \in Proc \ {p} PROVE Planned(q)'
  BY DEF AsPlanned
<1>1. Planned(q) /\ Duty(q)
  BY DEF AsPlanned, IInv, Employed
<1>2. pc'[q] = pc[q] /\ job'[q] = job[q] /\ plan'[q] = plan[q]
  BY DEF Kept
<1>3. pc[q] \in Synchronising => state' = state
  BY <1>1 DEF OneSynchroniser, Duty
<1>4. ASSUME pc[q] \in Admitted PROVE New(Mine(q), CrOf[job[q]])' = New(Mine(q), CrOf[job[q]])
  <2>1. file' = file
    BY <1>4, Labels, Exclusive DEF IInv
  <2> QED BY <1>2, <2>1 DEF Mine, New
<1>5. Between(q)' <=> Between(q)
  BY <1>2 DEF Between
<1>6. pc[q] \in Admitted => pc[q] \in Synchronising
  BY Labels
<1> QED BY <1>1, <1>2, <1>3, <1>4, <1>5, <1>6 DEF Planned

\* Only a process that may synchronise has written State and not the CR files.
LEMMA ByOne ==
  ASSUME OneSynchroniser, IInv, AsPlanned, NEW p \in Proc, Kept(p), Task[p] # {}
  PROVE  /\ \A q \in Proc \ {p} : pc[q] \notin Synchronising /\ pc'[q] \notin Synchronising
         /\ \A c : /\ Base(c) <=> c \in state /\ ~(Between(p) /\ CrOf[job[p]] = c)
                   /\ Writes(c) <=> Between(p) /\ pc[p] \in Admitted /\ CrOf[job[p]] = c
                   /\ Done(c) <=> pc[p] = "committed" /\ CrOf[job[p]] = c
                   /\ Base(c)' <=> c \in state' /\ ~(Between(p)' /\ CrOf[job'[p]] = c)
                   /\ Writes(c)' <=> Between(p)' /\ pc'[p] \in Admitted /\ CrOf[job'[p]] = c
                   /\ Done(c)' <=> pc'[p] = "committed" /\ CrOf[job'[p]] = c
<1>1. ASSUME NEW q \in Proc \ {p}
      PROVE  /\ pc[q] \notin Synchronising /\ pc'[q] = pc[q] /\ pc[q] # "committed"
             /\ ~Between(q) /\ ~Between(q)'
  <2>1. pc[q] \notin Synchronising /\ pc'[q] = pc[q] /\ plan'[q] = plan[q]
    BY DEF IInv, Employed, Duty, OneSynchroniser, Kept
  <2>2. ~plan[q].both
    BY <2>1 DEF AsPlanned, Planned
  <2> QED BY <2>1, <2>2 DEF Between, Synchronising, Admitted, Writing
<1> QED BY <1>1 DEF Base, Writes, Done

\* A process that does not synchronise changes none of this.
LEMMA Aside ==
  ASSUME AsPlanned, NEW p \in Proc, Kept(p), UNCHANGED <<state, apart, overrun>>,
         pc[p] \notin Synchronising, pc'[p] \notin Synchronising, ~plan'[p].both
  PROVE  /\ Scope' = Scope
         /\ \A c : (Base(c)' <=> Base(c)) /\ (Writes(c)' <=> Writes(c)) /\ (Done(c)' <=> Done(c))
<1>1. ~Between(p) /\ ~Between(p)' /\ pc[p] # "committed" /\ pc'[p] # "committed"
  BY DEF AsPlanned, Planned, Between, Synchronising, Admitted, Writing
<1>2. ASSUME NEW q \in Proc \ {p}
      PROVE  pc'[q] = pc[q] /\ job'[q] = job[q] /\ (Between(q)' <=> Between(q))
  BY DEF Kept, Between
<1>3. Scope' = Scope
  BY DEF Scope
<1> QED BY <1>1, <1>2, <1>3 DEF Base, Writes, Done

\* A step that leaves files and manifests alone, in a synchronisation that ends or is not yet admitted.
LEMMA CQuietly ==
  ASSUME OneSynchroniser, IInv, CInv, NEW p \in Proc, Kept(p), Task[p] # {},
         UNCHANGED <<file, journal>>, overrun \subseteq overrun', apart \subseteq apart',
         Planned(p)',
         pc'[p] \notin Admitted, pc[p] # "committed",
         \A c \in Scope' : (c \in state' /\ ~(Between(p)' /\ CrOf[job'[p]] = c))
                             <=> (c \in state /\ ~(Between(p) /\ CrOf[job[p]] = c)),
         pc[p] \in Admitted /\ Between(p) => NoTransaction \/ CrOf[job[p]] \notin Scope'
  PROVE  CInv'
<1>1. AsPlanned /\ Scope' \subseteq Scope
  BY DEF CInv, Scope
<1>2. AsPlanned'
  BY <1>1, PlannedKept
<1>3. \A c \in Scope' : /\ Base(c)' <=> Base(c)
                        /\ ~Done(c)
                        /\ Writes(c) => NoTransaction
  BY <1>1, ByOne
<1>4. NoTransaction' <=> NoTransaction
  BY DEF NoTransaction, Exists
<1>5. NoTransaction' => \A c \in Scope' : Done(c)' \/ (Base(c)' <=> c \in file'[c])
  BY <1>1, <1>3, <1>4 DEF CInv
<1>6. ASSUME NEW a \in Auth, Readable(a)' PROVE Matches(journal[a])'
  <2>1. PICK m : m = journal[a]
    OBVIOUS
  <2>2. Matches(m) /\ ~NoTransaction
    BY <1>6, <2>1 DEF CInv, Readable, NoTransaction, Exists
  <2>3. \A r : Old(m, r)' = Old(m, r) /\ New(m, r)' = New(m, r)
    BY DEF Old, New
  <2>4. Matches(m)'
    BY <1>1, <1>3, <2>2, <2>3 DEF Matches
  <2> QED BY <2>1, <2>4
<1>7. \A q \in Proc : pc'[q] \notin Admitted
  BY <1>1, ByOne, Labels
<1> QED BY <1>2, <1>5, <1>6, <1>7 DEF CInv

\* A step of a transaction: it goes on with its files in their generations.
LEMMA CInTransaction ==
  ASSUME OneSynchroniser, IInv, IInv', CInv, NEW p \in Proc, Kept(p),
         pc[p] \in Admitted \ {"committed"}, pc'[p] \in Writing,
         UNCHANGED <<state, job, plan, apart, overrun>>,
         \A r \in Ref \ DOMAIN Mine(p).before : file'[r] = file[r]
  PROVE  CInv'
<1>1. PICK m, c : m = Mine(p) /\ c = CrOf[job[p]]
  OBVIOUS
<1>2. /\ Task[p] # {} /\ job[p] \in Auth /\ c \in Cr /\ Mine(p)' = m /\ CrOf[job'[p]] = c
      /\ pc[p] \in Synchronising /\ pc'[p] \in Synchronising
  BY <1>1, Labels, Ranges DEF Duty, Mine, Admitted, Writing
<1>3. DOMAIN m.before \subseteq Ref
  BY <1>1, <1>2, MineFacts, ManifestFacts DEF IInv
<1>4. \A r \in Ref : Old(m, r)' = Old(m, r) /\ New(m, r)' = New(m, r)
  BY <1>1 DEF Old, New
<1>5. Between(p)' <=> Between(p)
  BY DEF Between, Admitted, Writing
<1>6. AsPlanned
  BY DEF CInv
<1>7. /\ Scope' = Scope
      /\ \A d : /\ Base(d)' <=> Base(d)
                /\ Writes(d)' <=> Writes(d)
                /\ Writes(d) => d = c
                /\ Done(d)' <=> pc'[p] = "committed" /\ d = c
  <2>1. pc'[p] \in Admitted
    BY Labels
  <2> QED BY <1>1, <1>2, <1>5, <1>6, <2>1, ByOne DEF Scope
<1>8. Matches(m)'
  <2>1. Matches(m)
    BY <1>1 DEF CInv
  <2>2. Scope \subseteq Ref
    BY TaskAssumption DEF Scope, Ref
  <2> QED BY <1>4, <1>7, <2>1, <2>2 DEF Matches
<1>9. AsPlanned'
  <2>1. Planned(p) /\ pc[p] \in Admitted
    BY <1>6 DEF AsPlanned
  <2>2. c \in overrun \union New(m, c)'
    BY <1>1, <1>2, <1>4, <2>1 DEF Planned, Ref
  <2>3. Planned(p)'
    BY <1>1, <1>2, <1>5, <2>1, <2>2 DEF Planned, Early, Admitted, Writing
  <2>4. pc[p] \in Holding
    BY Labels
  <2> QED BY <1>2, <1>6, <2>3, <2>4, PlannedKept
<1>10. ASSUME NoTransaction', NEW d \in Scope PROVE Done(d)' \/ (Base(d) <=> d \in file'[d])
  <2>1. journal'[job'[p]] = None
    BY <1>2, <1>10 DEF NoTransaction, Exists
  <2>2. Progress(p)' /\ m # None
    BY <1>1, <1>2, MineFacts, ManifestFacts DEF IInv
  <2>3. AllOld(m)' \/ (pc'[p] = "committed" /\ AllNew(m)')
    BY <1>2, <2>1, <2>2 DEF Progress, AllOld, Writing
  <2>4. Matches(m)' /\ d \in Scope'
    BY <1>7, <1>8
  <2>5. CASE AllOld(m)'
    <3>1. Old(m, d)' = file'[d]
      BY <2>5 DEF Old, AllOld
    <3> QED BY <1>7, <2>4, <3>1 DEF Matches
  <2>6. CASE pc'[p] = "committed" /\ AllNew(m)'
    <3>1. New(m, d)' = file'[d]
      BY <2>6 DEF New, AllNew
    <3> QED BY <1>7, <2>4, <2>6, <3>1 DEF Matches
  <2> QED BY <2>3, <2>5, <2>6
<1>11. ASSUME NEW a \in Auth, Readable(a)' PROVE Matches(journal[a])'
  <2>1. a = job[p]
    BY <1>2, <1>11 DEF IInv, Single, Readable, Exists
  <2>2. Progress(p)'
    BY DEF IInv
  <2>3. journal'[a] = m
    BY <1>2, <1>11, <2>1, <2>2 DEF Progress, Readable, Writing
  <2> QED BY <1>8, <2>3
<1>12. ASSUME NEW q \in Proc, pc'[q] \in Admitted PROVE Matches(Mine(q))'
  <2>1. q = p
    BY <1>2, <1>6, <1>12, ByOne, Labels
  <2> QED BY <1>2, <1>8, <2>1
<1> QED BY <1>7, <1>9, <1>10, <1>11, <1>12 DEF CInv

\* The claim: nothing has been written to a CR file yet.
LEMMA CAdmitted ==
  ASSUME OneSynchroniser, IInv, IInv', CInv, NEW p \in Proc, Kept(p), pc[p] = "admit",
         pc'[p] = "journal",
         UNCHANGED <<file, journal, state, job, plan, apart>>,
         overrun' = overrun \union UNION {Diff(file[r], plan[p].file[r]) : r \in Ref}
  PROVE  CInv'
<1>1. PICK m, c : m = Mine(p) /\ c = CrOf[job[p]]
  OBVIOUS
<1>2. /\ Task[p] # {} /\ job[p] \in Auth /\ c \in Cr /\ Mine(p)' = m /\ CrOf[job'[p]] = c
      /\ pc[p] \in Synchronising /\ pc'[p] \in Synchronising /\ pc'[p] \in Admitted
      /\ pc[p] \notin Admitted
  BY <1>1, Ranges DEF Duty, Mine, Admitted, Writing, Synchronising
<1>3. /\ NoTransaction /\ NoTransaction' /\ AsPlanned /\ Scope' \subseteq Scope
  BY DEF CInv, IInv, Single, Scope
<1>4. Between(p)' <=> Between(p)
  BY DEF Between
<1>5. \A d : /\ Base(d)' <=> Base(d)
             /\ Writes(d)' <=> Between(p) /\ d = c
             /\ ~Done(d)
  BY <1>1, <1>2, <1>3, <1>4, ByOne
<1>6. \A d \in Scope' : Base(d)' <=> d \in file'[d]
  BY <1>3, <1>5 DEF CInv
<1>7. Sound(m, c)' /\ AllOld(m)'
  <2>1. Sound(Mine(p), CrOf[job[p]])' /\ Progress(p)'
    BY <1>2 DEF IInv, Whole
  <2> QED BY <1>2, <2>1 DEF Progress
<1>8. m.after \in Images(DOMAIN m.before) /\ (c \in DOMAIN m.before => m.after[c] = {c})
      /\ (c \notin DOMAIN m.before => plan[p].file[c] = {c})
  <2>1. /\ Mine(p) \in Manifests /\ DOMAIN Mine(p).before = Targets(plan[p], c)
        /\ c \in Targets(plan[p], c) => Mine(p).after[c] = After(plan[p], c, c)
    BY <1>1, <1>2, MineFacts DEF IInv
  <2>2. After(plan[p], c, c) = {c}
    BY <1>2, IndexAssumption DEF After
  <2> QED BY <1>1, <2>1, <2>2, ManifestFacts DEF Targets
<1>9. c \in overrun' \union New(m, c)'
  <2>1. CASE c \in DOMAIN m.before
    BY <1>8, <2>1 DEF New
  <2>2. CASE c \notin DOMAIN m.before
    <3>1. New(m, c)' = file[c] /\ c \in plan[p].file[c]
      BY <1>8, <2>2 DEF New
    <3>2. c \notin file[c] => c \in Diff(file[c], plan[p].file[c])
      BY <3>1 DEF Diff
    <3> QED BY <1>2, <3>1, <3>2 DEF Ref
  <2> QED BY <2>1, <2>2
<1>10. AsPlanned'
  <2>1. Planned(p)
    BY <1>3 DEF AsPlanned
  <2>2. Planned(p)'
    BY <1>1, <1>2, <1>4, <1>9, <2>1 DEF Planned, Early
  <2> QED BY <1>2, <1>3, <2>2, PlannedKept
<1>11. Matches(m)'
  <2> SUFFICES ASSUME NEW d \in Scope'
               PROVE  (Base(d) <=> d \in Old(m, d))'
                      /\ (Writes(d)' \/ (Base(d) <=> d \in New(m, d))')
    BY DEF Matches
  <2>1. (Base(d) <=> d \in Old(m, d))'
    <3>1. Old(m, d)' = file'[d]
      BY <1>7 DEF Old, AllOld
    <3> QED BY <1>6, <3>1
  <2>2. CASE d # c
    <3>1. d \in Cr
      BY TaskAssumption DEF Scope
    <3>2. d \notin DOMAIN m.before
      BY <1>7, <2>2, <3>1, IndexAssumption DEF Sound
    <3>3. New(m, d)' = file'[d]
      BY <3>2 DEF New
    <3> QED BY <1>6, <2>1, <3>3
  <2>3. CASE d = c /\ ~Between(p)
    <3>1. c \in Shown /\ c \notin overrun'
      BY <2>3 DEF Scope
    <3>2. ~plan[p].both
      BY <2>3 DEF Between
    <3>3. c \in state
      BY <1>1, <1>2, <1>3, <2>3, <3>1, <3>2 DEF AsPlanned, Planned
    <3>4. Base(c)'
      BY <1>1, <1>2, <1>3, <1>4, <2>3, <3>3, ByOne
    <3>5. c \in New(m, c)'
      BY <1>9, <3>1
    <3> QED BY <2>1, <2>3, <3>4, <3>5
  <2>4. CASE d = c /\ Between(p)
    BY <1>5, <2>1, <2>4
  <2> QED BY <2>2, <2>3, <2>4
<1>12. \A a \in Auth : ~Readable(a)'
  BY <1>3 DEF NoTransaction, Exists, Readable
<1>13. ASSUME NEW q \in Proc, pc'[q] \in Admitted PROVE Matches(Mine(q))'
  <2>1. q = p
    BY <1>2, <1>3, <1>13, ByOne, Labels
  <2> QED BY <1>2, <1>11, <2>1
<1> QED BY <1>6, <1>10, <1>12, <1>13 DEF CInv

\* The end of a synchronisation that is whole, also when it dies reporting it.
LEMMA CCommitted ==
  ASSUME OneSynchroniser, IInv, CInv, NEW p \in Proc, Kept(p), pc[p] = "committed", pc'[p] = "idle",
         plan'[p] = NoPlan, UNCHANGED <<file, journal, state, overrun>>,
         apart' \in {apart, apart \ {CrOf[job[p]]}}
  PROVE  CInv'
<1>1. PICK m, c : m = Mine(p) /\ c = CrOf[job[p]]
  OBVIOUS
<1>2. /\ Task[p] # {} /\ job[p] \in Auth /\ c \in Cr /\ pc[p] \in Admitted
      /\ pc[p] \in Synchronising
      /\ pc'[p] \notin Synchronising /\ pc'[p] \notin Admitted /\ AsPlanned /\ ~plan'[p].both
  BY <1>1, Ranges DEF Duty, Admitted, Writing, Synchronising, CInv, NoPlan, Early, Waiting
<1>3. NoTransaction /\ NoTransaction' /\ AllNew(m)
  <2>1. \A a \in Auth : ~Exists(a)
    BY <1>2 DEF IInv, Single, Writing, Progress, Exists
  <2> QED BY <1>1, <2>1 DEF NoTransaction, Exists, IInv, Progress
<1>4. ~Between(p)'
  BY <1>2 DEF Between
<1>5. \A d : /\ Base(d) <=> d \in state /\ ~(Between(p) /\ d = c)
             /\ Base(d)' <=> d \in state
             /\ Done(d) => d = c
  BY <1>1, <1>2, <1>4, ByOne
<1>6. AsPlanned'
  <2>1. Planned(p)'
    BY <1>2 DEF Planned
  <2> QED BY <1>2, <2>1, PlannedKept
<1>7. ASSUME NEW d \in Scope' PROVE Base(d)' <=> d \in file'[d]
  <2>1. CASE d # c
    <3>1. d \in Scope
      BY <1>1, <1>7, <2>1 DEF Scope
    <3> QED BY <1>3, <1>5, <2>1, <3>1 DEF CInv
  <2>2. CASE d = c
    <3>1. c \in Shown /\ c \notin overrun /\ Planned(p)
      BY <1>2, <1>7, <2>2 DEF Scope, AsPlanned
    <3>2. c \in state
      BY <1>1, <1>2, <3>1 DEF Planned, Between, Early
    <3>3. c \in New(m, c) /\ New(m, c) = file[c]
      BY <1>1, <1>2, <1>3, <3>1 DEF Planned, New, AllNew
    <3> QED BY <1>5, <2>2, <3>2, <3>3
  <2> QED BY <2>1, <2>2
<1>8. \A a \in Auth : ~Readable(a)'
  BY <1>3 DEF NoTransaction, Exists, Readable
<1>9. \A q \in Proc : pc'[q] \notin Admitted
  BY <1>2, ByOne, Labels
<1> QED BY <1>6, <1>7, <1>8, <1>9 DEF CInv

\* The recoveries.
LEMMA CInRecovery ==
  ASSUME OneSynchroniser, IInv, IInv', CInv, NEW p \in Proc, Kept(p),
         pc[p] \notin Synchronising, pc'[p] \notin Synchronising, ~plan'[p].both,
         UNCHANGED <<state, apart, overrun>>, pc[p] \in Holding \/ UNCHANGED <<file, journal>>,
         \A a \in Auth : Readable(a)' =>
           /\ Readable(a) /\ journal'[a] = journal[a]
           /\ \A r \in Ref \ DOMAIN journal[a].before : file'[r] = file[r],
         NoTransaction' =>
           /\ file' = file
           /\ NoTransaction \/ (pc[p] \in Holding /\ \E a \in Auth : Readable(a)
              /\ (AllOld(journal[a]) \/ AllNew(journal[a])))
  PROVE  CInv'
<1>1. AsPlanned
  BY DEF CInv
<1>2. AsPlanned'
  <2>1. Planned(p)'
    BY Labels DEF Planned
  <2> QED BY <1>1, <2>1, PlannedKept
<1>3. /\ Scope' = Scope
      /\ \A c : (Base(c)' <=> Base(c)) /\ (Writes(c)' <=> Writes(c)) /\ (Done(c)' <=> Done(c))
  BY <1>1, Aside
<1>4. ASSUME NEW m, Matches(m), \A r \in Ref \ DOMAIN m.before : file'[r] = file[r]
      PROVE Matches(m)'
  <2>1. \A r \in Ref : Old(m, r)' = Old(m, r) /\ New(m, r)' = New(m, r)
    BY <1>4 DEF Old, New
  <2>2. Scope \subseteq Ref
    BY TaskAssumption DEF Scope, Ref
  <2> QED BY <1>3, <1>4, <2>1, <2>2 DEF Matches
<1>5. ASSUME NEW a \in Auth, Readable(a)' PROVE Matches(journal[a])'
  <2>1. PICK m : m = journal[a]
    OBVIOUS
  <2>2. Matches(m) /\ journal'[a] = m /\ \A r \in Ref \ DOMAIN m.before : file'[r] = file[r]
    BY <1>5, <2>1 DEF CInv
  <2> QED BY <1>4, <2>2
<1>6. ASSUME NEW q \in Proc, pc'[q] \in Admitted \ {"committed"} PROVE Matches(Mine(q))'
  <2>1. q # p /\ pc[q] \in Admitted \ {"committed"}
    BY <1>6, Labels DEF Kept
  <2>2. UNCHANGED <<file, journal>>
    BY <2>1, Labels, Exclusive DEF IInv
  <2>3. PICK m : m = Mine(q)
    OBVIOUS
  <2>4. Matches(m) /\ Mine(q)' = m
    BY <2>1, <2>3 DEF CInv, Mine, Kept
  <2> QED BY <1>4, <2>2, <2>4
<1>7. ASSUME NoTransaction', NEW c \in Scope' PROVE Done(c)' \/ (Base(c)' <=> c \in file'[c])
  <2>1. CASE NoTransaction
    BY <1>3, <1>7, <2>1 DEF CInv
  <2>2. CASE pc[p] \in Holding /\ \E a \in Auth : Readable(a)
             /\ (AllOld(journal[a]) \/ AllNew(journal[a]))
    <3>1. PICK a \in Auth : Readable(a) /\ (AllOld(journal[a]) \/ AllNew(journal[a]))
      BY <2>2
    <3>2. PICK m : m = journal[a]
      OBVIOUS
    <3>3. Matches(m) /\ (AllOld(m) \/ AllNew(m))
      BY <3>1, <3>2 DEF CInv
    <3>4. ~Writes(c)
      <4>1. \A q \in Proc : pc[q] \notin Admitted
        BY <2>2, Labels, Exclusive DEF IInv
      <4> QED BY <4>1 DEF Writes
    <3>5. Old(m, c) = file[c] \/ New(m, c) = file[c]
      BY <3>3 DEF Old, New, AllOld, AllNew
    <3>6. Base(c) <=> c \in file[c]
      BY <1>3, <1>7, <3>3, <3>4, <3>5 DEF Matches
    <3> QED BY <1>3, <1>7, <3>6
  <2> QED BY <1>7, <2>1, <2>2
<1> QED BY <1>2, <1>5, <1>6, <1>7 DEF CInv

\* Where a process gives up.
LEMMA CForget ==
  ASSUME OneSynchroniser, IInv, IInv', CInv, NEW p \in Proc, Forget(p), UNCHANGED <<file, journal>>,
         overrun \subseteq overrun', apart \subseteq apart',
         pc[p] \in Synchronising \ {"committed"},
         \A c \in Scope' : c \in state' <=> c \in state /\ ~(Between(p) /\ CrOf[job[p]] = c),
         pc[p] \in Admitted /\ Between(p) => NoTransaction \/ CrOf[job[p]] \notin Scope'
  PROVE  CInv'
<1>1. Kept(p) /\ pc'[p] = "idle" /\ plan'[p] = NoPlan
  BY ForgetDoes DEF IInv, Forget, TypeOK
<1>2. ~plan'[p].both /\ pc'[p] \notin Synchronising /\ pc'[p] \notin Admitted
  BY <1>1, Labels DEF NoPlan, Synchronising, Early, Waiting, Admitted, Writing
<1>3. ~Between(p)'
  BY <1>2 DEF Between
<1>4. Planned(p)'
  BY <1>2 DEF Planned
<1>5. Task[p] # {}
  BY DEF IInv, Employed, Duty
<1> QED BY <1>1, <1>2, <1>3, <1>4, <1>5, CQuietly

\* A step outside the transaction that goes on.
LEMMA CGoOn ==
  ASSUME OneSynchroniser, IInv, IInv', CInv, NEW p \in Proc,
         pc[p] \in Early \union Waiting \union {"admit", "blocked"},
         NEW label \in Early \union Waiting \union {"admit"}, Goto(p, label),
         UNCHANGED <<file, journal, job, plan, applied, todo, failed, apart>>,
         overrun \subseteq overrun',
         \/ state' = state /\ (label \in Early => pc[p] \in Early)
            /\ (pc[p] \in Early => label \in Early)
         \/ pc[p] = "state" /\ label = "check" /\ state' = plan[p].state \union {CrOf[job[p]]}
  PROVE  CInv'
<1>1. Kept(p) /\ pc'[p] = label
  BY GotoDoes DEF IInv, Synchronising, Kept
<1>2. Task[p] # {} /\ pc[p] \in Synchronising /\ pc'[p] \in Synchronising /\ AsPlanned
  BY <1>1, Ranges DEF Duty, Synchronising, Admitted, Writing, CInv
<1>3. pc'[p] \notin Admitted /\ pc[p] # "committed"
  BY <1>1 DEF Early, Waiting, Admitted, Writing
<1>4. Planned(p) /\ plan'[p] = plan[p] /\ job'[p] = job[p]
  BY <1>2 DEF AsPlanned
<1>5. Between(p) <=> plan[p].both /\ pc[p] \notin Early
  BY DEF Between, Early
<1>6. Between(p)' <=> plan[p].both /\ label \notin Early
  BY <1>1, <1>4 DEF Between, Early
<1>7. Planned(p)'
  <2>1. CASE state' = state /\ (label \in Early => pc[p] \in Early)
             /\ (pc[p] \in Early => label \in Early)
    BY <1>1, <1>2, <1>3, <1>4, <1>5, <1>6, <2>1 DEF Planned
  <2>2. CASE pc[p] = "state" /\ label = "check" /\ state' = plan[p].state \union {CrOf[job[p]]}
    <3>1. pc[p] \in Early /\ label \notin Early /\ plan[p].both
      BY <1>2, <1>4, <2>2 DEF Early, Planned
    <3> QED BY <1>1, <1>2, <1>3, <1>4, <1>5, <1>6, <2>2, <3>1 DEF Planned
  <2> QED BY <2>1, <2>2
<1>8. \A c \in Scope' : (c \in state' /\ ~(Between(p)' /\ CrOf[job'[p]] = c))
                          <=> (c \in state /\ ~(Between(p) /\ CrOf[job[p]] = c))
  <2>1. CASE state' = state /\ (label \in Early => pc[p] \in Early)
             /\ (pc[p] \in Early => label \in Early)
    BY <1>4, <1>5, <1>6, <2>1
  <2>2. CASE pc[p] = "state" /\ label = "check" /\ state' = plan[p].state \union {CrOf[job[p]]}
    <3>1. pc[p] \in Early /\ label \notin Early /\ plan[p].both
      BY <1>2, <1>4, <2>2 DEF Early, Planned
    <3>2. state = plan[p].state /\ CrOf[job[p]] \notin plan[p].state
      BY <1>2, <1>4, <1>5, <3>1 DEF Planned
    <3> QED BY <1>4, <1>5, <1>6, <2>2, <3>1, <3>2
  <2> QED BY <2>1, <2>2
<1>9. pc[p] \in Admitted => NoTransaction
  BY DEF IInv, Single, Progress, NoTransaction, Exists, Early, Waiting, Admitted, Writing
<1> QED BY <1>1, <1>2, <1>3, <1>7, <1>8, <1>9, CQuietly

LEMMA CPlan ==
  ASSUME OneSynchroniser, IInv, IInv', CInv, NEW p \in Proc, NEW a \in Auth, Plan(p, a)
  PROVE  CInv'
<1> DEFINE seen == [file |-> file, state |-> state, both |-> CrOf[a] \in Shown \ state]
<1>1. pc[p] = "idle" /\ a \in Task[p] /\ job' = [job EXCEPT ![p] = a]
      /\ plan' = [plan EXCEPT ![p] = seen]
      /\ UNCHANGED <<file, state, journal, applied, todo, failed, apart, overrun>>
  BY DEF Plan
<1>2. Goto(p, IF seen.both THEN "prepare" ELSE "check")
  BY DEF Plan
<1>3. /\ pc'[p] = IF seen.both THEN "prepare" ELSE "check"
      /\ job'[p] = a /\ plan'[p] = seen /\ Kept(p)
  BY <1>1, <1>2 DEF IInv, TypeOK, Goto, Kept
<1>4. AsPlanned /\ pc[p] \notin Synchronising /\ ~Between(p)
   BY <1>1 DEF CInv, AsPlanned, Planned, Between, Synchronising, Early, Waiting, Admitted,
     Writing
<1>5. ~Between(p)' /\ pc'[p] \notin Admitted /\ pc'[p] \in Synchronising
      /\ (pc'[p] \in Early => plan'[p].both)
  BY <1>3 DEF Between, Admitted, Writing, Synchronising, Early, Waiting
<1>6. Planned(p)'
  <2>1. seen.state = state /\ (seen.both <=> CrOf[a] \in Shown \ state)
    OBVIOUS
  <2>2. plan'[p].state = state /\ (plan'[p].both <=> CrOf[job'[p]] \in Shown \ state)
        /\ state' = state
    BY <1>1, <1>3, <2>1
  <2> HIDE DEF seen
  <2> QED BY <1>5, <2>2 DEF Planned
<1> QED BY <1>1, <1>3, <1>4, <1>5, <1>6, CQuietly

LEMMA CBlocked ==
  ASSUME OneSynchroniser, IInv, IInv', CInv, NEW p \in Proc, Blocked(p),
         pc[p] \in Waiting \union {"admit", "blocked"},
         UNCHANGED <<file, state, journal, apart, overrun>>
  PROVE  CInv'
<1>1. CASE plan[p].both /\ Goto(p, "compensate") /\ UNCHANGED <<job, plan, applied, todo, failed>>
  <2>1. "compensate" \in Waiting /\ "compensate" \notin Early /\ pc[p] \notin Early
    BY DEF Waiting, Early
  <2> QED BY <1>1, <2>1, CGoOn
<1>2. CASE ~plan[p].both /\ Forget(p)
  <2>1. ~Between(p) /\ pc[p] \in Synchronising \ {"committed"}
    BY <1>2 DEF Between, Synchronising, Waiting, Admitted, Writing
  <2> QED BY <1>2, <2>1, CForget
<1> QED BY <1>1, <1>2 DEF Blocked

\* Up to the lock.
LEMMA CEarlySteps ==
  ASSUME OneSynchroniser, IInv, IInv', CInv, NEW p \in Proc,
         Prepare(p) \/ LockToValidate(p) \/ Validate(p) \/ WriteState(p)
  PROVE  CInv'
<1>1. /\ pc[p] \in Early /\ UNCHANGED <<file, journal, apart>> /\ overrun \subseteq overrun'
      /\ pc[p] \in Synchronising \ {"committed"} /\ ~Between(p) /\ pc[p] \notin Admitted
   BY DEF Prepare, LockToValidate, Validate, WriteState, Early, Synchronising, Between,
     Admitted, Writing
<1>2. CASE Forget(p) /\ state' = state
  BY <1>1, <1>2, CForget
<1>3. CASE /\ \E label \in Early : Goto(p, label)
           /\ UNCHANGED <<state, job, plan, applied, todo, failed>>
  BY <1>1, <1>3, CGoOn
<1>4. CASE /\ pc[p] = "state" /\ Goto(p, "check") /\ state' = plan[p].state \union {CrOf[job[p]]}
           /\ UNCHANGED <<job, plan, applied, todo, failed>>
  <2>1. "check" \in Waiting
    BY DEF Waiting
  <2> QED BY <1>1, <1>4, <2>1, CGoOn
<1>5. CASE Prepare(p)
  BY <1>2, <1>3, <1>5 DEF Prepare, Early
<1>6. CASE LockToValidate(p)
  BY <1>2, <1>3, <1>6 DEF LockToValidate, Early
<1>7. CASE Validate(p)
  BY <1>2, <1>3, <1>7 DEF Validate, Early
<1>8. CASE WriteState(p)
  BY <1>2, <1>4, <1>8 DEF WriteState
<1> QED BY <1>5, <1>6, <1>7, <1>8

LEMMA CWaitingSteps ==
  ASSUME OneSynchroniser, IInv, IInv', CInv, NEW p \in Proc, CheckUnresolved(p) \/ LockToApply(p)
  PROVE  CInv'
<1>1. pc[p] \in Waiting /\ pc[p] \notin Early /\ UNCHANGED <<file, state, journal, apart, overrun>>
  BY DEF CheckUnresolved, LockToApply, Waiting, Early
<1>2. CASE Blocked(p)
  BY <1>1, <1>2, CBlocked
<1>3. CASE /\ \E label \in {"lock", "admit"} : Goto(p, label)
           /\ UNCHANGED <<job, plan, applied, todo, failed>>
  <2>1. PICK label \in {"lock", "admit"} : Goto(p, label)
    BY <1>3
  <2>2. label \in Waiting \union {"admit"} /\ label \notin Early
    BY DEF Waiting, Early
  <2> QED BY <1>1, <1>3, <2>1, <2>2, CGoOn
<1> QED BY <1>2, <1>3 DEF CheckUnresolved, LockToApply

LEMMA CAdmit ==
  ASSUME OneSynchroniser, IInv, IInv', CInv, NEW p \in Proc, Admit(p) PROVE CInv'
<1>1. /\ pc[p] = "admit" /\ UNCHANGED <<file, state, journal>>
      /\ pc[p] \in Synchronising \ {"committed"} /\ pc[p] \notin Admitted
  BY DEF Admit, Synchronising, Admitted, Writing
<1>2. CASE Blocked(p) /\ UNCHANGED <<apart, overrun>>
  BY <1>1, <1>2, CBlocked
<1>3. CASE /\ Forget(p) /\ UNCHANGED overrun
           /\ apart' = IF plan[p].both THEN apart \union {CrOf[job[p]]} ELSE apart
  <2>1. Between(p) => CrOf[job[p]] \notin Scope'
    BY <1>3 DEF Between, Scope
  <2>2. apart \subseteq apart'
    BY <1>3
  <2> QED BY <1>1, <1>3, <2>1, <2>2, CForget
<1>4. CASE /\ overrun' = overrun \union UNION {Diff(file[r], plan[p].file[r]) : r \in Ref}
           /\ Goto(p, "journal")
           /\ UNCHANGED <<job, plan, applied, todo, failed, apart>>
  <2>1. Kept(p) /\ pc'[p] = "journal"
    BY <1>4 DEF IInv, TypeOK, Goto, Kept
  <2> QED BY <1>1, <1>4, <2>1, CAdmitted
<1> QED BY <1>2, <1>3, <1>4 DEF Admit

\* In the transaction.
LEMMA CTransactionSteps ==
  ASSUME OneSynchroniser, IInv, IInv', CInv, NEW p \in Proc,
         \/ OpenTransaction(p) \/ ReplaceTarget(p) \/ WriteReceipt(p) \/ Commit(p) \/ Remove(p)
         \/ RollbackTarget(p) \/ FinishRollback(p) \/ Discard(p)
  PROVE  CInv'
<1>1. /\ pc[p] \in Admitted \ {"committed"} /\ UNCHANGED <<state, job, plan, apart, overrun>>
      /\ pc[p] # "idle"
   BY DEF OpenTransaction, ReplaceTarget, WriteReceipt, Commit, Remove, RollbackTarget,
     FinishRollback,
     Discard, Admitted, Writing
<1>2. pc \in [Proc -> Synchronising \union Recovering \union {"idle"}]
  BY DEF IInv, TypeOK
<1>3. /\ pc'[p] \in Writing
      /\ \A q \in Proc \ {p} : pc'[q] = pc[q]
   BY <1>2 DEF OpenTransaction, ReplaceTarget, WriteReceipt, Commit, Remove, RollbackTarget,
     FinishRollback,
     Discard, WriteManifest, RemoveTransaction, Goto, Writing
<1>4. \A q \in Proc \ {p} : applied'[q] = applied[q] /\ todo'[q] = todo[q] /\ failed'[q] = failed[q]
   BY DEF OpenTransaction, ReplaceTarget, WriteReceipt, Commit, Remove, RollbackTarget,
     FinishRollback,
     Discard, IInv, TypeOK
<1>5. Kept(p)
  BY <1>1, <1>3, <1>4 DEF Kept
<1>6. job[p] \in Auth
  BY <1>1, Ranges
<1>7. \A r \in Ref \ DOMAIN Mine(p).before : file'[r] = file[r]
  <2>1. CASE file' = file
    BY <2>1
  <2>2. ASSUME NEW s \in DOMAIN Mine(p).before, NEW x, file' = [file EXCEPT ![s] = x]
        PROVE  \A r \in Ref \ DOMAIN Mine(p).before : file'[r] = file[r]
    BY <2>2 DEF IInv, TypeOK, Images
  <2>3. DOMAIN Mine(p).before = Targets(plan[p], CrOf[job[p]])
    BY <1>6, MineFacts DEF IInv
  <2>4. CASE ReplaceTarget(p)
    BY <2>1, <2>2, <2>3, <2>4 DEF ReplaceTarget, IsFirst
  <2>5. CASE RollbackTarget(p)
    <3>1. todo[p] \subseteq DOMAIN Mine(p).before
      BY <2>5 DEF RollbackTarget, IInv, Progress
    <3> QED BY <2>1, <2>2, <2>5, <3>1 DEF RollbackTarget, IsLast
   <2> QED BY <2>1, <2>4, <2>5 DEF OpenTransaction, WriteReceipt, Commit, Remove,
             FinishRollback, Discard
<1> QED BY <1>1, <1>3, <1>5, <1>7, CInTransaction

\* The end of a synchronisation.
LEMMA CRelease ==
  ASSUME OneSynchroniser, IInv, IInv', CInv, NEW p \in Proc, Release(p) PROVE CInv'
<1>1. pc[p] \in {"committed", "blocked", "end"} /\ UNCHANGED <<file, state, journal, overrun>>
  BY DEF Release
<1>2. CASE pc[p] = "blocked"
  BY <1>1, <1>2, CBlocked DEF Release
<1>3. CASE pc[p] = "committed"
  <2>1. Forget(p) /\ apart' = apart \ {CrOf[job[p]]}
    BY <1>3 DEF Release
  <2>2. Kept(p) /\ pc'[p] = "idle" /\ plan'[p] = NoPlan
    BY <2>1, ForgetDoes DEF IInv, Forget, TypeOK
  <2> QED BY <1>1, <1>3, <2>1, <2>2, CCommitted
<1>4. CASE pc[p] = "end"
  <2>1. Forget(p) /\ apart' = IF plan[p].both THEN apart \union {CrOf[job[p]]} ELSE apart
    BY <1>4 DEF Release
  <2>2. pc[p] \in Synchronising \ {"committed"} /\ apart \subseteq apart'
    BY <1>4, <2>1 DEF Synchronising, Admitted, Writing
  <2>3. Between(p) => CrOf[job[p]] \notin Scope'
    BY <2>1 DEF Between, Scope
  <2> QED BY <1>1, <2>1, <2>2, <2>3, CForget
<1> QED BY <1>1, <1>2, <1>3, <1>4

LEMMA CCompensate ==
  ASSUME OneSynchroniser, IInv, IInv', CInv, NEW p \in Proc, Compensate(p) PROVE CInv'
<1>1. pc[p] = "compensate" /\ Forget(p) /\ UNCHANGED <<file, journal>>
  BY DEF Compensate
<1>2. /\ pc[p] \in Synchronising \ {"committed"} /\ pc[p] \notin Early /\ pc[p] \notin Admitted
      /\ Between(p) <=> plan[p].both
  BY <1>1 DEF Synchronising, Waiting, Early, Admitted, Writing, Between
<1>3. Planned(p) /\ CrOf[job[p]] \in Cr
  BY <1>1, Ranges DEF CInv, AsPlanned
<1>4. CASE /\ state' = plan[p].state
           /\ overrun' = overrun \union Diff(state, plan[p].state \union {CrOf[job[p]]})
           /\ UNCHANGED apart
  <2>1. \A c \in Scope' : c \in state' <=> c \in state /\ ~(Between(p) /\ CrOf[job[p]] = c)
    BY <1>2, <1>3, <1>4 DEF Planned, Scope, Diff
  <2>2. overrun \subseteq overrun' /\ apart \subseteq apart'
    BY <1>4
  <2> QED BY <1>1, <1>2, <2>1, <2>2, CForget
<1>5. CASE apart' = apart \union {CrOf[job[p]]} /\ UNCHANGED <<state, overrun>>
  <2>1. \A c \in Scope' : c \in state' <=> c \in state /\ ~(Between(p) /\ CrOf[job[p]] = c)
    BY <1>5 DEF Scope
  <2>2. apart \subseteq apart' /\ overrun \subseteq overrun'
    BY <1>5
  <2> QED BY <1>1, <1>2, <2>1, <2>2, CForget
<1> QED BY <1>4, <1>5 DEF Compensate

\* A step of a process that does not synchronise and touches no file.
LEMMA CAside ==
  ASSUME OneSynchroniser, IInv, IInv', CInv, NEW p \in Proc, Kept(p), pc[p] \notin Synchronising,
         pc'[p] \notin Synchronising, ~plan'[p].both,
         UNCHANGED <<file, state, journal, apart, overrun>>
  PROVE  CInv'
<1>1. \A a \in Auth : Readable(a)' =>
        /\ Readable(a) /\ journal'[a] = journal[a]
        /\ \A r \in Ref \ DOMAIN journal[a].before : file'[r] = file[r]
  BY DEF Readable
<1>2. NoTransaction' => NoTransaction /\ file' = file
  BY DEF NoTransaction, Exists
<1> QED BY <1>1, <1>2, CInRecovery

LEMMA CCrash ==
  ASSUME OneSynchroniser, IInv, IInv', CInv, NEW p \in Proc, Crash(p) PROVE CInv'
<1>1. /\ pc[p] # "idle" /\ Forget(p) /\ UNCHANGED <<file, state, journal, overrun>>
      /\ apart' = IF Between(p) /\ pc[p] # "committed" THEN apart \union {CrOf[job[p]]} ELSE apart
  BY DEF Crash
<1>2. Kept(p) /\ pc'[p] = "idle" /\ plan'[p] = NoPlan
  BY <1>1, ForgetDoes DEF IInv, Forget, TypeOK
<1>3. CASE pc[p] = "committed"
  BY <1>1, <1>2, <1>3, CCommitted
<1>4. CASE pc[p] \in Synchronising \ {"committed"}
  <2>1. Between(p) => CrOf[job[p]] \notin Scope'
    BY <1>1, <1>4 DEF Scope
  <2>2. apart \subseteq apart' /\ overrun \subseteq overrun'
    BY <1>1
  <2>3. \A c \in Scope' : c \in state' <=> c \in state /\ ~(Between(p) /\ CrOf[job[p]] = c)
    BY <1>1, <2>1
  <2> QED BY <1>1, <1>4, <2>1, <2>2, <2>3, CForget
<1>5. CASE pc[p] \notin Synchronising
  <2>1. ~Between(p) /\ ~plan'[p].both /\ pc'[p] \notin Synchronising
     BY <1>2, <1>5 DEF CInv, AsPlanned, Planned, Between, NoPlan, Synchronising, Early,
       Waiting, Admitted, Writing
  <2> QED BY <1>1, <1>2, <1>5, <2>1, CAside
<1> QED BY <1>3, <1>4, <1>5

\* The recoveries.
LEMMA CRecoverySteps ==
  ASSUME OneSynchroniser, IInv, IInv', CInv, NEW p \in Proc,
         \/ \E a \in Auth : \E action \in {"resume", "undo"} : StartRecovery(p, a, action)
         \/ MarkRecovery(p) \/ RecoverTarget(p) \/ FinishRecovery(p) \/ LeaveRecovery(p)
  PROVE  CInv'
<1>1. pc \in [Proc -> Synchronising \union Recovering \union {"idle"}]
  BY DEF IInv, TypeOK
<1>2. /\ pc[p] \notin Synchronising /\ UNCHANGED <<state, apart, overrun>>
      /\ pc'[p] \notin Synchronising
      /\ \A q \in Proc \ {p} : pc'[q] = pc[q]
   BY <1>1 DEF StartRecovery, MarkRecovery, RecoverTarget, FinishRecovery, LeaveRecovery, Goto,
     Forget, RemoveTransaction, Synchronising, Early, Waiting, Admitted, Writing
<1>3. ~plan[p].both
  BY <1>2 DEF CInv, AsPlanned, Planned
<1>4. /\ \A q \in Proc \ {p} : /\ job'[q] = job[q] /\ plan'[q] = plan[q] /\ applied'[q] = applied[q]
                               /\ todo'[q] = todo[q] /\ failed'[q] = failed[q]
      /\ ~plan'[p].both
  <2>1. /\ job \in [Proc -> Auth \union {None}] /\ plan \in [Proc -> Seen]
        /\ applied \in [Proc -> SUBSET Ref] /\ todo \in [Proc -> SUBSET Ref]
        /\ failed \in [Proc -> BOOLEAN]
    BY DEF IInv, TypeOK
  <2>2. CASE \E a \in Auth : \E action \in {"resume", "undo"} : StartRecovery(p, a, action)
    BY <1>3, <2>1, <2>2 DEF StartRecovery
  <2>3. CASE MarkRecovery(p) \/ FinishRecovery(p)
    BY <1>3, <2>3 DEF MarkRecovery, FinishRecovery
  <2>4. CASE RecoverTarget(p)
    BY <1>3, <2>1, <2>4 DEF RecoverTarget
  <2>5. CASE LeaveRecovery(p)
    BY <2>1, <2>5 DEF LeaveRecovery, Forget, NoPlan
  <2> QED BY <2>2, <2>3, <2>4, <2>5
<1>5. Kept(p)
  BY <1>2, <1>4 DEF Kept
<1>6. CASE UNCHANGED <<file, journal>>
  BY <1>2, <1>4, <1>5, <1>6, CAside
<1>7. CASE RecoverTarget(p)
  <2>1. pc[p] \in {"resuming", "undoing"} /\ UNCHANGED journal
    BY <1>7 DEF RecoverTarget
  <2>2. /\ pc[p] \in Holding /\ job[p] \in Auth /\ Exists(job[p])
        /\ todo[p] \subseteq DOMAIN journal[job[p]].before
        /\ \A a \in Auth : Exists(a) => a = job[p]
    BY <2>1, RecoveryFacts, Labels DEF Recovering, IInv, Restoring
  <2>3. \A r \in Ref \ todo[p] : file'[r] = file[r]
    <3> DEFINE wanted(r) == IF pc[p] = "resuming" THEN journal[job[p]].after[r]
                                                  ELSE journal[job[p]].before[r]
    <3>1. PICK r \in Ref :
            /\ IF pc[p] = "resuming" THEN IsFirst(r, todo[p]) ELSE IsLast(r, todo[p])
            /\ file' = file \/ file' = [file EXCEPT ![r] = wanted(r)]
      BY <1>7, Zenon DEF RecoverTarget
    <3>2. r \in todo[p] /\ DOMAIN file = Ref
      BY <3>1 DEF IsFirst, IsLast, IInv, TypeOK, Images
    <3> QED BY <3>1, <3>2
  <2>4. \A a \in Auth : Readable(a)' =>
          /\ Readable(a) /\ journal'[a] = journal[a]
          /\ \A r \in Ref \ DOMAIN journal[a].before : file'[r] = file[r]
    BY <2>1, <2>2, <2>3 DEF Readable, Exists
  <2>5. ~NoTransaction'
    BY <2>1, <2>2 DEF NoTransaction, Exists
  <2> QED BY <1>2, <1>4, <1>5, <2>2, <2>4, <2>5, CInRecovery
<1>8. CASE FinishRecovery(p) /\ journal' # journal
  <2>1. /\ pc[p] \in {"resuming", "undoing"} /\ todo[p] = {} /\ ~failed[p] /\ UNCHANGED file
        /\ RemoveTransaction(p, "leave", "leave")
    BY <1>8 DEF FinishRecovery
  <2>2. pc[p] \in Holding /\ job[p] \in Auth /\ Readable(job[p])
    BY <2>1, RecoveryFacts, Labels DEF Recovering
  <2>3. AllOld(journal[job[p]]) \/ AllNew(journal[job[p]])
    BY <2>1 DEF IInv, Restoring, AllOld, AllNew
  <2>4. \A a \in Auth : journal'[a] \in {None, journal[a]}
    BY <2>1, <2>2, RemoveOutcome DEF IInv
  <2>5. \A a \in Auth : Readable(a)' =>
          /\ Readable(a) /\ journal'[a] = journal[a]
          /\ \A r \in Ref \ DOMAIN journal[a].before : file'[r] = file[r]
    BY <2>1, <2>4 DEF Readable
  <2> QED BY <1>2, <1>4, <1>5, <2>1, <2>2, <2>3, <2>5, CInRecovery
<1> QED BY <1>6, <1>7, <1>8 DEF StartRecovery, MarkRecovery, FinishRecovery, LeaveRecovery

LEMMA NextCInv == OneSynchroniser /\ IInv /\ IInv' /\ CInv /\ [Next]_vars => CInv'
<1> SUFFICES ASSUME OneSynchroniser, IInv, IInv', CInv, [Next]_vars PROVE CInv'
  OBVIOUS
<1>1. CASE UNCHANGED vars
  <2>1. UNCHANGED <<file, state, journal, pc, job, plan, apart, overrun>>
    BY <1>1 DEF vars, local
  <2>2. AsPlanned'
    BY <2>1 DEF CInv, AsPlanned, Planned, Between, New, Mine
  <2>3. /\ Scope' = Scope /\ (NoTransaction' <=> NoTransaction)
        /\ \A c : (Base(c)' <=> Base(c)) /\ (Writes(c)' <=> Writes(c)) /\ (Done(c)' <=> Done(c))
    BY <2>1 DEF Scope, NoTransaction, Exists, Base, Writes, Done, Between
  <2>4. ASSUME NEW m, Matches(m) PROVE Matches(m)'
    BY <2>1, <2>3, <2>4 DEF Matches, Old, New
  <2>5. ASSUME NEW a \in Auth, Readable(a)' PROVE Matches(journal[a])'
    <3>1. PICK m : m = journal[a]
      OBVIOUS
    <3> QED BY <2>1, <2>4, <2>5, <3>1 DEF CInv, Readable
  <2>6. ASSUME NEW q \in Proc, pc'[q] \in Admitted \ {"committed"} PROVE Matches(Mine(q))'
    <3>1. PICK m : m = Mine(q)
      OBVIOUS
    <3> QED BY <2>1, <2>4, <2>6, <3>1 DEF CInv, Mine
  <2> QED BY <2>1, <2>2, <2>3, <2>5, <2>6 DEF CInv
<1>2. ASSUME NEW p \in Proc, NEW a \in Auth, Plan(p, a) PROVE CInv'
  BY <1>2, CPlan
<1>3. ASSUME NEW p \in Proc, Crash(p) PROVE CInv'
  BY <1>3, CCrash
<1>4. ASSUME NEW p \in Proc, NEW a \in Auth, NEW action \in {"resume", "undo"},
             StartRecovery(p, a, action)
      PROVE CInv'
  BY <1>4, CRecoverySteps
<1>5. ASSUME NEW p \in Proc, Step(p) PROVE CInv'
   BY <1>5, CEarlySteps, CWaitingSteps, CAdmit, CTransactionSteps, CRelease, CCompensate,
     CRecoverySteps DEF Step
<1> QED BY <1>1, <1>2, <1>3, <1>4, <1>5 DEF Next

(* With one synchronising process: when no command runs and no transaction  *)
(* is left, State and the CR files show the same change requests, apart     *)
(* from the synchronisations that were reported PARTIAL or died between     *)
(* the channels, and from records that moved between a plan and its writes. *)
THEOREM ChannelsHold == ASSUME OneSynchroniser PROVE Spec => []ChannelsAgree
<1>1. Init => IInv /\ CInv
  <2> SUFFICES ASSUME Init PROVE CInv
    BY InitIInv
  <2>1. \A p \in Proc : pc[p] = "idle" /\ ~plan[p].both
    BY DEF Init, NoPlan
  <2>2. AsPlanned
    BY <2>1 DEF AsPlanned, Planned, Synchronising, Early, Waiting, Admitted, Writing
   <2> QED BY <2>1, <2>2, TaskAssumption DEF Init, CInv, Base, NoTransaction, Exists, Readable,
             Admitted, Writing,
        Scope, Ref
<1>2. IInv /\ CInv /\ [Next]_vars => (IInv /\ CInv)'
  BY NextIInv, NextCInv
<1>3. CInv => ChannelsAgree
  <2> SUFFICES ASSUME CInv, Quiet, Idle, NEW c \in Shown \ (apart \union overrun)
               PROVE  c \in state <=> c \in file[c]
    BY DEF ChannelsAgree
  <2>1. NoTransaction /\ c \in Scope
    BY DEF Quiet, NoTransaction, Scope
  <2>2. \A p \in Proc : ~Between(p) /\ pc[p] # "committed"
     BY DEF CInv, AsPlanned, Planned, Idle, Between, Synchronising, Early, Waiting, Admitted,
       Writing
  <2> QED BY <2>1, <2>2 DEF CInv, Base, Done
<1> QED BY <1>1, <1>2, <1>3, PTL DEF Spec
=============================================================================
