------------------------- MODULE ConfigReloadProofs -------------------------
(***************************************************************************)
(* LoneReloadRepairs for every number of configurations, subscriptions and *)
(* reloads before it, those that raced included.  The invariant follows    *)
(* the one reload that is under way: what it has assigned so far comes     *)
(* from its own configuration, what it has not may come from any.          *)
(***************************************************************************)
EXTENDS ConfigReload, TLAPS

Sets == {{}} \cup {{v} : v \in Versions}

\* A job is idle, or it is within its part of Order and, unless it reloads the
\* rules, has a configuration to install.
JobsOK ==
    \A j \in Jobs :
        /\ j = "rules" => job[j].step \in {0} \cup 2 .. 5
        /\ j # "rules" /\ job[j].step > 0 => \E v \in Versions : job[j].new = {v}

\* When the last reload began alone, it is the only one.
OneAtATime ==
    alone => \A i, j \in Jobs : job[i].step > 0 /\ job[j].step > 0 => i = j

\* A reload that is alone has assigned its own configuration so far.
DoneSoFar ==
    alone => \A j \in Jobs :
        /\ job[j].step > 2 => part["checker"] = Source(j)
        /\ job[j].step > 4 => part["adblock"] = Source(j)

IInv == TypeOK /\ JobsOK /\ OneAtATime /\ DoneSoFar /\ LoneReloadRepairs

\* Order, spelled out.
LEMMA OrderFacts ==
    /\ Len(Order) = 6
    /\ Order[1] = "resolver" /\ Order[2] = "checker" /\ Order[3] = "engine"
    /\ Order[4] = "adblock" /\ Order[5] = "subs" /\ Order[6] = "cfg"
BY DEF Order

\* A job that has begun installs a configuration: its own, or cfg.
LEMMA SourceTyped ==
    ASSUME IInv, NEW j \in Jobs, job[j].step > 0
    PROVE  /\ Source(j) \in Versions
           /\ j # "rules" => job[j].new = {Source(j)}
<1>1. CASE j = "rules"
  BY <1>1 DEF Source, IInv, TypeOK
<1>2. CASE j # "rules"
  <2>1. PICK v \in Versions : job[j].new = {v}
    BY <1>2 DEF IInv, JobsOK
  <2>2. (CHOOSE w \in {v} : TRUE) = v
    OBVIOUS
  <2> QED
    BY <1>2, <2>1, <2>2 DEF Source
<1> QED
  BY <1>1, <1>2

\* A job that keeps what it installs.
LEMMA SourceKept ==
    ASSUME NEW j \in Jobs, job'[j].new = job[j].new, cfg' = cfg
    PROVE  Source(j)' = Source(j)
<1>1. ASSUME NEW S, NEW T, S = T PROVE (CHOOSE v \in S : TRUE) = (CHOOSE v \in T : TRUE)
  BY <1>1
<1>2. (CHOOSE v \in job'[j].new : TRUE) = (CHOOSE v \in job[j].new : TRUE)
  BY <1>1
<1> QED
  BY <1>2 DEF Source

\* Where a job stands after it has assigned a global.
LEMMA AfterStepTyped ==
    ASSUME IInv, NEW j \in Jobs, job[j].step > 0
    PROVE  /\ AfterStep(j) \in [step : 0 .. 6, new : Sets]
           /\ \/ AfterStep(j).step = 0 /\ job[j].step = IF j = "rules" THEN 5 ELSE 6
              \/ /\ AfterStep(j).step = job[j].step + 1
                 /\ AfterStep(j).new = job[j].new
                 /\ job[j].step < IF j = "rules" THEN 5 ELSE 6
<1> USE DEF IInv
<1>1. job[j] \in [step : 0 .. 6, new : Sets]
  BY OrderFacts DEF TypeOK, Sets
<1>2. j = "rules" => job[j].step <= 5
  BY <1>1 DEF JobsOK
<1> DEFINE last == IF j = "rules" THEN 5 ELSE 6
<1>3. AfterStep(j) = IF job[j].step = last THEN Idle ELSE [job[j] EXCEPT !.step = @ + 1]
  BY OrderFacts DEF AfterStep
<1>4. CASE job[j].step = last
  BY <1>1, <1>3, <1>4 DEF Idle, Sets
<1>5. CASE job[j].step # last
  BY <1>1, <1>2, <1>3, <1>5
<1> QED
  BY <1>4, <1>5

\* At boot every part is built from the file.
LEMMA InitIInv == Init => IInv
<1> SUFFICES ASSUME Init PROVE IInv
  OBVIOUS
<1> USE DEF Init
<1>1. Idle \in [step : 0 .. 6, new : Sets]
  BY DEF Idle, Sets
<1>2. TypeOK
  BY <1>1, OrderFacts DEF TypeOK, Sets
<1>3. \A j \in Jobs : job[j].step = 0
  BY DEF Idle
<1>4. JobsOK /\ OneAtATime /\ DoneSoFar
  BY <1>3 DEF JobsOK, OneAtATime, DoneSoFar
<1>5. LoneReloadRepairs
  BY DEF LoneReloadRepairs, Parts
<1> QED
  BY <1>2, <1>4, <1>5 DEF IInv

\* A step that leaves cfg, the jobs and the parts they assign alone.
LEMMA JobsKept ==
    ASSUME IInv, UNCHANGED <<cfg, job, alone>>,
           \A p \in Parts \ {"engine"} : part'[p] = part[p]
    PROVE  JobsOK' /\ OneAtATime' /\ DoneSoFar' /\ LoneReloadRepairs'
<1> USE DEF IInv
<1>1. \A j \in Jobs : Source(j)' = Source(j)
  BY DEF Source
<1>2. Reloading' <=> Reloading
  BY DEF Reloading
<1>3. JobsOK' /\ OneAtATime'
  BY DEF JobsOK, OneAtATime
<1>4. DoneSoFar'
  BY <1>1 DEF DoneSoFar, Parts
<1>5. LoneReloadRepairs'
  BY <1>2 DEF LoneReloadRepairs, Parts
<1> QED
  BY <1>3, <1>4, <1>5

\* A reload begins.
LEMMA BeginOK ==
    ASSUME IInv, NEW j \in Jobs, NEW first \in {1, 2}, NEW new \in Sets,
           Begin(j, first, new), UNCHANGED <<cfg, part>>,
           j = "rules" => first = 2,
           j # "rules" => new # {}
    PROVE  /\ job' \in [Jobs -> [step : 0 .. Len(Order), new : Sets]]
           /\ alone' \in BOOLEAN
           /\ JobsOK' /\ OneAtATime' /\ DoneSoFar' /\ LoneReloadRepairs'
<1> USE DEF IInv
<1>1. /\ job'[j] = [step |-> first, new |-> new]
      /\ \A i \in Jobs : i # j => job'[i] = job[i]
      /\ job' \in [Jobs -> [step : 0 .. 6, new : Sets]]
  BY OrderFacts DEF Begin, TypeOK, Sets
<1>2. alone' = ~Reloading
  BY DEF Begin
<1>3. alone' \in BOOLEAN
  BY <1>2 DEF Reloading
<1>4. JobsOK'
  BY <1>1 DEF JobsOK, Sets
<1>5. OneAtATime'
  BY <1>1, <1>2 DEF OneAtATime, Reloading, TypeOK
<1>6. DoneSoFar'
  <2>1. ASSUME alone', NEW i \in Jobs PROVE job'[i].step \in 0 .. 2
    <3>1. CASE i = j
      BY <1>1, <3>1
    <3>2. CASE i # j
      <4>1. ~(job[i].step > 0)
        BY <1>2, <2>1 DEF Reloading
      <4>2. job[i].step \in 0 .. 6 /\ job'[i] = job[i]
        BY <1>1, <3>2, OrderFacts DEF TypeOK
      <4> QED
        BY <4>1, <4>2
    <3> QED
      BY <3>1, <3>2
  <2>2. ASSUME alone', NEW i \in Jobs
        PROVE  ~(job'[i].step > 2) /\ ~(job'[i].step > 4)
    BY <2>1, <2>2
  <2> QED
    BY <2>2 DEF DoneSoFar
<1>7. Reloading'
  BY <1>1 DEF Reloading
<1>8. LoneReloadRepairs'
  BY <1>7 DEF LoneReloadRepairs
<1> QED
  BY <1>1, <1>3, <1>4, <1>5, <1>6, <1>8, OrderFacts

\* A reload assigns the next global: the last one ends it.
LEMMA AssignOK == ASSUME IInv, NEW j \in Jobs, Assign(j) PROVE IInv'
<1> USE DEF IInv
<1> DEFINE p == Order[job[j].step]
<1>1. job[j].step \in 1 .. 6
  BY OrderFacts DEF Assign, TypeOK
<1>2. Source(j) \in Versions
  BY <1>1, SourceTyped
<1>3. job' = [job EXCEPT ![j] = AfterStep(j)] /\ UNCHANGED <<file, alone, fetch>>
  BY DEF Assign
<1>4. /\ cfg' = IF p = "cfg" THEN Source(j) ELSE cfg
      /\ part' = [q \in Parts |-> IF q = p THEN Source(j) ELSE part[q]]
      /\ engineSubs' = IF p = "engine" THEN {} ELSE engineSubs
      /\ loaded' = (loaded /\ p # "adblock")
  BY DEF Assign
<1>5. p = "cfg" <=> job[j].step = 6
  BY <1>1, OrderFacts
<1>6. /\ job'[j] = AfterStep(j)
      /\ \A i \in Jobs : i # j => job'[i] = job[i]
      /\ job' \in [Jobs -> [step : 0 .. 6, new : Sets]]
  BY <1>1, <1>3, AfterStepTyped, OrderFacts DEF TypeOK, Sets
<1>7. TypeOK'
  <2>1. part' \in [Parts -> Versions] /\ cfg' \in Versions
    BY <1>2, <1>4, <1>5 DEF TypeOK
  <2>2. engineSubs' \subseteq Subs
    BY <1>4 DEF TypeOK
  <2>3. loaded' \in BOOLEAN
    BY <1>4 DEF TypeOK
  <2> QED
    BY <2>1, <2>2, <2>3, <1>3, <1>6, OrderFacts DEF TypeOK, Sets
<1>8. JobsOK'
  BY <1>1, <1>6, AfterStepTyped DEF JobsOK
<1>9. OneAtATime'
  BY <1>1, <1>3, <1>6, AfterStepTyped DEF OneAtATime
<1>10. ASSUME alone PROVE \A i \in Jobs : i # j => job'[i].step = 0
  BY <1>1, <1>6, <1>10, OrderFacts DEF OneAtATime, TypeOK
<1>11. ASSUME job'[j].step > 0 PROVE Source(j)' = Source(j)
  <2>1. CASE j = "rules"
    <3>1. job[j].step # 6
      BY <2>1 DEF JobsOK
    <3> QED
      BY <2>1, <3>1, <1>4, <1>5 DEF Source
  <2>2. CASE j # "rules"
    BY <2>2, <1>1, <1>6, <1>11, AfterStepTyped DEF Source
  <2> QED
    BY <2>1, <2>2
<1>12. part'["checker"] = IF job[j].step = 2 THEN Source(j) ELSE part["checker"]
  BY <1>1, <1>4, OrderFacts DEF TypeOK, Parts
<1>13. part'["adblock"] = IF job[j].step = 4 THEN Source(j) ELSE part["adblock"]
  BY <1>1, <1>4, OrderFacts DEF TypeOK, Parts
<1>14. DoneSoFar'
  <2> SUFFICES ASSUME alone', NEW i \in Jobs, job'[i].step > 0
               PROVE  /\ job'[i].step > 2 => part'["checker"] = Source(i)'
                      /\ job'[i].step > 4 => part'["adblock"] = Source(i)'
    BY <1>6 DEF DoneSoFar
  <2>1. alone /\ i = j
    BY <1>3, <1>10
  <2>2. Source(j)' = Source(j) /\ job'[j].step = job[j].step + 1
    BY <2>1, <1>1, <1>6, <1>11, AfterStepTyped
  <2>3. CASE job[j].step \in {1, 2}
    BY <2>1, <2>2, <2>3, <1>12
  <2>4. CASE job[j].step \in 3 .. 6
    BY <2>1, <2>2, <2>4, <1>1, <1>12, <1>13 DEF DoneSoFar
  <2> QED
    BY <2>3, <2>4, <1>1
<1>15. LoneReloadRepairs'
  <2> SUFFICES ASSUME ~Reloading', alone'
               PROVE  part'["checker"] = cfg' /\ part'["adblock"] = cfg'
    BY DEF LoneReloadRepairs
  <2>1. alone
    BY <1>3
  <2>2. job'[j].step = 0
    BY <1>6 DEF Reloading
  <2>3. job[j].step = IF j = "rules" THEN 5 ELSE 6
    BY <2>2, <1>1, <1>6, AfterStepTyped
  <2>4. part["checker"] = Source(j) /\ part["adblock"] = Source(j)
    BY <2>1, <2>3 DEF DoneSoFar
  <2>5. CASE j = "rules"
    BY <2>3, <2>4, <2>5, <1>4, <1>5, <1>12, <1>13 DEF Source
  <2>6. CASE j # "rules"
    BY <2>3, <2>4, <2>6, <1>4, <1>5, <1>12, <1>13
  <2> QED
    BY <2>5, <2>6
<1> QED
  BY <1>7, <1>8, <1>9, <1>14, <1>15

\* Every step preserves the invariant.
LEMMA NextIInv == IInv /\ [Next]_vars => IInv'
<1> SUFFICES ASSUME IInv, [Next]_vars PROVE IInv'
  OBVIOUS
<1> USE DEF IInv
<1>1. ASSUME NEW v \in Versions, EditFile(v) PROVE IInv'
  BY <1>1, JobsKept DEF EditFile, TypeOK
<1>2. ASSUME NEW j \in Jobs, BeginSighup(j) PROVE IInv'
  <2>1. {file} \in Sets /\ {file} # {} /\ j # "rules"
    BY <1>2 DEF BeginSighup, TypeOK, Sets
  <2> QED
    BY <1>2, <2>1, BeginOK DEF BeginSighup, TypeOK, Sets
<1>3. ASSUME NEW j \in Jobs, BeginRules(j) PROVE IInv'
  <2>1. {} \in Sets
    BY DEF Sets
  <2> QED
    BY <1>3, <2>1, BeginOK DEF BeginRules, TypeOK, Sets
<1>4. ASSUME NEW j \in Jobs, NEW v \in Versions, BeginWebUI(j, v) PROVE IInv'
  <2>1. {v} \in Sets /\ {v} # {} /\ j # "rules"
    BY <1>4 DEF BeginWebUI, Sets
  <2> QED
    BY <1>4, <2>1, BeginOK DEF BeginWebUI, TypeOK, Sets
<1>5. ASSUME NEW j \in Jobs, Assign(j) PROVE IInv'
  BY <1>5, AssignOK
<1>6. ASSUME NEW j \in Jobs, ResolverRefused(j) PROVE IInv'
  <2> USE <1>6 DEF ResolverRefused
  <2>1. /\ job' \in [Jobs -> [step : 0 .. 6, new : Sets]]
        /\ job'[j].step = 2 /\ job'[j].new = job[j].new
        /\ \A i \in Jobs : i # j => job'[i] = job[i]
    BY OrderFacts DEF TypeOK, Sets
  <2>2. \A i \in Jobs : Source(i)' = Source(i)
    <3>1. \A i \in Jobs : job'[i].new = job[i].new
      BY <2>1
    <3> QED
      BY <3>1, SourceKept
  <2>3. TypeOK'
    BY <2>1, OrderFacts DEF TypeOK, Sets
  <2>4. JobsOK'
    BY <2>1 DEF JobsOK
  <2>5. OneAtATime'
    BY <2>1 DEF OneAtATime
  <2>6. DoneSoFar'
    BY <2>1, <2>2 DEF DoneSoFar
  <2>7. Reloading'
    BY <2>1 DEF Reloading
  <2> QED
    BY <2>3, <2>4, <2>5, <2>6, <2>7 DEF LoneReloadRepairs
<1>7. CASE LoadAll
  BY <1>7, JobsKept DEF LoadAll, TypeOK
<1>8. ASSUME NEW s \in Subs, Fetch(s) PROVE IInv'
  BY <1>8, JobsKept DEF Fetch, TypeOK
<1>9. ASSUME NEW s \in Subs, Install(s) PROVE IInv'
  <2> USE <1>9 DEF Install
  <2>1. PICK v \in fetch[s] : part' = [part EXCEPT !["engine"] = v]
    OBVIOUS
  <2>2. v \in Versions
    BY <2>1 DEF TypeOK
  <2>3. TypeOK'
    BY <2>1, <2>2 DEF TypeOK
  <2>4. \A p \in Parts \ {"engine"} : part'[p] = part[p]
    BY <2>1 DEF TypeOK
  <2> QED
    BY <2>3, <2>4, JobsKept
<1>10. CASE UNCHANGED vars
  BY <1>10, JobsKept DEF vars, TypeOK
<1> QED
  BY <1>1, <1>2, <1>3, <1>4, <1>5, <1>6, <1>7, <1>8, <1>9, <1>10 DEF Next

\* TypeOK of hot reload for every value of the constants.
THEOREM TypesHold == Spec => []TypeOK
<1>1. IInv => TypeOK
  BY DEF IInv
<1> QED
  BY InitIInv, NextIInv, <1>1, PTL DEF Spec

\* A reload that nothing overlapped leaves the proxy groups and block lists of
\* the configuration in force.
THEOREM LoneReloadWins == Spec => []LoneReloadRepairs
<1>1. IInv => LoneReloadRepairs
  BY DEF IInv
<1> QED
  BY InitIInv, NextIInv, <1>1, PTL DEF Spec
=============================================================================
