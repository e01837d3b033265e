---------------------------- MODULE GatewayProofs ----------------------------
(***************************************************************************)
(* Theorems about Gateway, for any profiles, mounts and number of builds,  *)
(* and about ServeProcess, which drives it, for any commands, settings     *)
(* classes and endpoints.                                                  *)
(***************************************************************************)
EXTENDS ServeProcess, SequenceTheorems, FiniteSetTheorems, TLAPS

-----------------------------------------------------------------------------
(* Types.                                                                  *)

LEMMA PlanTyped ==
  ASSUME NEW p \in Plan
  PROVE  /\ p \in BuildPlan /\ Len(p.mounts) \in 0..MaxMounts
         /\ \A i \in 1..Len(p.mounts) :
              /\ p.mounts[i].prefix \in Seq(Word)
              /\ p.mounts[i].profile \in ServerProfile
  <1> DEFINE M == [prefix : Seq(Word), profile : ServerProfile]
             ms == p.mounts
  <1>1. p \in BuildPlan
    BY PlanAssumption
  <1>2. ms \in Seq(M)
    BY <1>1 DEF BuildPlan
  <1>3. /\ Len(ms) \in Nat
        /\ \A i \in 1..Len(ms) : ms[i] \in M
    <2> HIDE DEF M, ms
    <2>1. QED
      BY <1>2
  <1>4. Len(ms) \in 0..MaxMounts
    BY <1>3, PlanAssumption, BoundAssumption
  <1>5. QED
    BY <1>1, <1>3, <1>4

\* While a server is built, the mount it is about exists.
MountInRange ==
  /\ status = "idle" => mount = 1
  /\ status \in {"building", "built", "serving"} => mount \in 1..Len(plan.mounts)
  /\ status \in {"built", "serving"} => mount = Len(plan.mounts)

TypeInv == TypeOK /\ MountInRange

LEMMA TypeInit == Init => TypeInv
  <1> SUFFICES ASSUME Init PROVE TypeInv
    OBVIOUS
  <1>1. surface \in [1..MaxMounts -> SUBSET Name]
    BY DEF Init
  <1>2. client \in [1..MaxAttempts -> [1..MaxMounts -> {"none", "open", "closed"}]]
    BY DEF Init
  <1>3. ended \in [1..MaxAttempts -> {"no", "failed", "stopped", "stopped by own lifespan"}]
    BY DEF Init
  <1>4. attempt \in 1..MaxAttempts /\ mount \in 1..(MaxMounts + 1)
    BY BoundAssumption DEF Init
  <1>5. QED
    BY <1>1, <1>2, <1>3, <1>4 DEF Init, TypeInv, TypeOK, MountInRange, Steps

\* The sources of the mount that is built are sources.
LEMMA SourcesTyped ==
  ASSUME TypeInv, status = "building"
  PROVE  /\ mount \in 1..MaxMounts
         /\ Profile(mount) \in ServerProfile
         /\ \A k \in 1..Len(Profile(mount).sources) :
              /\ k \in Nat
              /\ Profile(mount).sources[k].tools \subseteq Name
  <1> DEFINE ss == Profile(mount).sources
  <1>1. plan \in Plan /\ mount \in 1..Len(plan.mounts)
    BY DEF TypeInv, TypeOK, MountInRange
  <1>2. mount \in 1..MaxMounts /\ Profile(mount) \in ServerProfile
    BY <1>1, PlanTyped, BoundAssumption DEF Profile
  <1>3. ss \in Seq(ToolSource)
    BY <1>2 DEF ServerProfile
  <1>4. \A k \in 1..Len(ss) : ss[k] \in ToolSource /\ k \in Nat
    <2> HIDE DEF ss
    <2>1. QED
      BY <1>3
  <1>5. QED
    BY <1>2, <1>4 DEF ToolSource

\* What every step of a build keeps: it goes on to a known step, or leaves the build.
LEMMA BuildStepType ==
  ASSUME TypeInv, status = "building" \/ status = "idle",
         UNCHANGED <<plan, attempt, mount>>,
         \/ \E s \in Steps : step' = s /\ UNCHANGED <<status, ended>>
         \/ Fail,
         source' \in Nat,
         surface' \in [1..MaxMounts -> SUBSET Name],
         client' \in [1..MaxAttempts -> [1..MaxMounts -> {"none", "open", "closed"}]],
         Builtin \subseteq registry' /\ registry' \subseteq Builtin \cup Plugin,
         loaded' \in BOOLEAN
  PROVE  TypeInv'
  <1>1. /\ step' \in Steps /\ status' \in {"idle", "building", "over"}
        /\ status' = status \/ status' = "over"
        /\ ended' \in [1..MaxAttempts -> {"no", "failed", "stopped", "stopped by own lifespan"}]
    BY DEF TypeInv, TypeOK, Fail
  <1>2. TypeOK'
    BY <1>1 DEF TypeInv, TypeOK
  <1>3. MountInRange'
    BY <1>1 DEF TypeInv, MountInRange
  <1>4. QED
    BY <1>2, <1>3 DEF TypeInv

LEMMA TypeNext == TypeInv /\ [Next]_vars => TypeInv'
  <1> SUFFICES ASSUME TypeInv, [Next]_vars PROVE TypeInv'
    OBVIOUS
  <1> USE DEF Steps
  <1>1. CASE Start
    <2>1. CASE plan.gateway /\ plan.mounts = <<>>
      BY <1>1, <2>1, BuildStepType DEF Start, TypeInv, TypeOK
    <2>2. CASE ~(plan.gateway /\ plan.mounts = <<>>)
      <3>1. /\ status' = "building" /\ step' \in Steps
            /\ UNCHANGED <<plan, attempt, mount, source, surface, client, ended, registry, loaded>>
        BY <1>1, <2>2 DEF Start
      <3>2. 1 \in 1..Len(plan.mounts)
        <4>1. plan \in BuildPlan /\ Len(plan.mounts) \in Nat
          <5>1. plan \in Plan
            BY DEF TypeInv, TypeOK
          <5>2. plan \in BuildPlan /\ Len(plan.mounts) \in 0..MaxMounts
            BY <5>1, PlanTyped
          <5>3. QED
            BY <5>2, BoundAssumption
        <4>2. plan.mounts # <<>> \/ Len(plan.mounts) = 1
          BY <2>2, PlanAssumption DEF TypeInv, TypeOK
        <4>3. plan.mounts \in Seq([prefix : Seq(Word), profile : ServerProfile])
          BY <4>1 DEF BuildPlan
        <4>4. Len(plan.mounts) = 0 => plan.mounts = <<>>
          BY <4>3, EmptySeq
        <4>5. QED
          BY <4>1, <4>2, <4>4
      <3>3. mount = 1
        BY <1>1 DEF Start, TypeInv, MountInRange
      <3>4. QED
        BY <3>1, <3>2, <3>3 DEF TypeInv, TypeOK, MountInRange
    <2>3. QED
      BY <2>1, <2>2
  <1>2. CASE CheckPrefix
    BY <1>2, BuildStepType DEF CheckPrefix, Building, Proceed, TypeInv, TypeOK
  <1>3. CASE BuildAuth
    BY <1>3, BuildStepType DEF BuildAuth, Building, Proceed, TypeInv, TypeOK
  <1>4. CASE BuildClient
    <2>1. client' \in [1..MaxAttempts -> [1..MaxMounts -> {"none", "open", "closed"}]]
      <3> DEFINE State == {"none", "open", "closed"}
                 Row == [1..MaxMounts -> State]
      <3>1. attempt \in 1..MaxAttempts /\ client \in [1..MaxAttempts -> Row]
        BY DEF TypeInv, TypeOK
      <3>2. \A x \in State : [client[attempt] EXCEPT ![mount] = x] \in Row
        BY <3>1
      <3>3. \/ client' = client
            \/ \E x \in State :
                 client' = [client EXCEPT ![attempt] = [client[attempt] EXCEPT ![mount] = x]]
        BY <1>4 DEF BuildClient
      <3>4. QED
        <4> HIDE DEF State, Row
        <4>1. client' \in [1..MaxAttempts -> Row]
          BY <3>1, <3>2, <3>3
        <4>2. QED
          BY <4>1 DEF State, Row
    <2>2. QED
      BY <1>4, <2>1, BuildStepType DEF BuildClient, Building, Proceed, TypeInv, TypeOK
  <1>5. CASE BuildSources
    BY <1>5, BuildStepType DEF BuildSources, Building, Proceed, TypeInv, TypeOK
  <1>6. CASE Construct
    <2>1. surface' \in [1..MaxMounts -> SUBSET Name]
      <3>1. \A k \in Constructing(Profile(mount)) :
              Profile(mount).sources[k].tools \subseteq Name
        BY <1>6, SourcesTyped DEF Construct, Building, Constructing
      <3>2. QED
        BY <1>6, <3>1 DEF Construct, TypeInv, TypeOK
    <2>2. QED
      BY <1>6, <2>1, BuildStepType DEF Construct, Building, Proceed, TypeInv, TypeOK
  <1>7. CASE AddMiddleware
    BY <1>7, BuildStepType DEF AddMiddleware, Building, Proceed, TypeInv, TypeOK
  <1>8. CASE RegisterNext
    <2> PICK k \in Pending : Register(k)
      BY <1>8 DEF RegisterNext
    <2>1. status = "building" /\ k \in Nat /\ Profile(mount).sources[k].tools \subseteq Name
      BY <1>8, SourcesTyped DEF RegisterNext, Building, Pending, Registering
    <2>2. surface' \in [1..MaxMounts -> SUBSET Name] /\ source' \in Nat
      <3> DEFINE T == Profile(mount).sources[k].tools
      <3>1. /\ surface' = [surface EXCEPT ![mount] = surface[mount] \cup T] \/ surface' = surface
            /\ source' = k + 1 \/ source' = source
        BY DEF Register
      <3>2. T \subseteq Name /\ source \in Nat /\ surface \in [1..MaxMounts -> SUBSET Name]
        BY <2>1 DEF TypeInv, TypeOK
      <3> HIDE DEF T
      <3>3. mount \in 1..MaxMounts => surface[mount] \cup T \in SUBSET Name
        BY <3>2
      <3>4. surface' \in [1..MaxMounts -> SUBSET Name]
        BY <3>1, <3>2, <3>3
      <3>5. QED
        BY <2>1, <3>1, <3>2, <3>4
    <2>3. /\ Builtin \subseteq registry' /\ registry' \subseteq Builtin \cup Plugin
          /\ loaded' \in BOOLEAN
      BY DEF Register, LoadEntrypoints, TypeInv, TypeOK
    <2>4. /\ UNCHANGED <<plan, attempt, mount, client>>
          /\ Proceed("register") \/ Fail
      BY DEF Register
    <2>5. QED
      BY <2>1, <2>2, <2>3, <2>4, BuildStepType DEF Proceed, TypeInv, TypeOK
  <1>9. CASE AllRegistered
    BY <1>9, BuildStepType DEF AllRegistered, Building, Proceed, TypeInv, TypeOK
  <1>10. CASE LoadExtensions
    BY <1>10, BuildStepType DEF LoadExtensions, Building, Proceed, TypeInv, TypeOK
  <1>11. CASE Mount
    <2>1. mount \in 1..Len(plan.mounts) /\ Len(plan.mounts) \in 0..MaxMounts
      <3>1. plan \in Plan /\ status = "building"
        BY <1>11 DEF Mount, Building, TypeInv, TypeOK
      <3>2. QED
        BY <3>1, PlanTyped DEF TypeInv, MountInRange
    <2>3. /\ UNCHANGED <<plan, attempt, source, surface, client, ended, registry, loaded>>
          /\ \/ mount' = mount + 1 /\ step' = "prefix" /\ status' = "building"
                /\ mount' \in 1..Len(plan.mounts)
             \/ mount' = mount /\ step' = step /\ status' = "built" /\ mount = Len(plan.mounts)
      BY <1>11, <2>1, BoundAssumption DEF Mount, Building
    <2>4. mount' \in 1..(MaxMounts + 1)
      BY <2>1, <2>3, BoundAssumption
    <2>5. MountInRange'
      BY <2>1, <2>3 DEF MountInRange
    <2>6. TypeOK'
      BY <2>3, <2>4 DEF TypeInv, TypeOK
    <2>2. QED
      BY <2>5, <2>6 DEF TypeInv
  <1>12. CASE Serve
    BY <1>12 DEF Serve, Fail, TypeInv, TypeOK, MountInRange
  <1>13. CASE Stop
    <2>1. client' \in [1..MaxAttempts -> [1..MaxMounts -> {"none", "open", "closed"}]]
      <3> DEFINE State == {"none", "open", "closed"}
                 Row == [1..MaxMounts -> State]
                 shut == [i \in 1..MaxMounts |-> Closed(client[attempt][i])]
      <3>1. attempt \in 1..MaxAttempts /\ client \in [1..MaxAttempts -> Row]
        BY DEF TypeInv, TypeOK
      <3>2. shut \in Row
        BY <3>1 DEF Closed
      <3>3. client' = client \/ client' = [client EXCEPT ![attempt] = shut]
        BY <1>13 DEF Stop
      <3>4. QED
        <4> HIDE DEF State, Row, shut
        <4>1. client' \in [1..MaxAttempts -> Row]
          BY <3>1, <3>2, <3>3
        <4>2. QED
          BY <4>1 DEF State, Row
    <2>2. ended' \in [1..MaxAttempts -> {"no", "failed", "stopped", "stopped by own lifespan"}]
      BY <1>13 DEF Stop, TypeInv, TypeOK
    <2>3. QED
      BY <1>13, <2>1, <2>2 DEF Stop, TypeInv, TypeOK, MountInRange
  <1>14. CASE Again
    <2>1. surface' \in [1..MaxMounts -> SUBSET Name]
      BY <1>14 DEF Again
    <2>3. attempt' \in 1..MaxAttempts
      <3>1. attempt \in 1..MaxAttempts /\ attempt < MaxAttempts /\ attempt' = attempt + 1
        BY <1>14 DEF Again, TypeInv, TypeOK
      <3>2. QED
        BY <3>1, BoundAssumption
    <2>4. mount' = 1 /\ mount' \in 1..(MaxMounts + 1) /\ source' \in Nat
      BY <1>14, BoundAssumption DEF Again
    <2>2. QED
      BY <1>14, <2>1, <2>3, <2>4 DEF Again, TypeInv, TypeOK, MountInRange
  <1>15. CASE UNCHANGED vars
    BY <1>15 DEF vars, TypeInv, TypeOK, MountInRange
  <1>16. QED
    BY <1>1, <1>2, <1>3, <1>4, <1>5, <1>6, <1>7, <1>8, <1>9, <1>10, <1>11, <1>12, <1>13,
       <1>14, <1>15 DEF Next

\* Every state has the types that the model declares: what is built is one of the plan's
\* mounts, and the registry keeps the built-in tools (tools/registry.py:38-48).
THEOREM TypeCorrect == Spec => []TypeOK
  <1>1. Spec => []TypeInv
    BY TypeInit, TypeNext, PTL DEF Spec
  <1>2. QED
    BY <1>1, PTL DEF TypeInv

-----------------------------------------------------------------------------
(* Orphans.                                                                *)

\* A build has no end before it is over, and a later one has no clients yet; one that was
\* stopped left none open.
OrphanInv ==
  /\ TypeInv
  /\ \A a \in 1..MaxAttempts :
       /\ ended[a] = "stopped" => \A i \in 1..MaxMounts : client[a][i] # "open"
       /\ a > attempt \/ (a = attempt /\ status # "over") => ended[a] = "no"

LEMMA OrphanInit == Init => OrphanInv
  <1> SUFFICES ASSUME Init PROVE OrphanInv
    OBVIOUS
  <1>1. \A a \in 1..MaxAttempts : ended[a] = "no"
    BY DEF Init
  <1>2. QED
    BY <1>1, TypeInit DEF OrphanInv

\* A step of a build changes at most the client of the build itself.
LEMMA OrphanBuildStep ==
  ASSUME OrphanInv, TypeInv', status # "over", UNCHANGED attempt,
         \A a \in 1..MaxAttempts : a # attempt => client'[a] = client[a],
         \/ ended' = ended /\ status' # "over"
         \/ Fail
  PROVE  OrphanInv'
  <1> SUFFICES ASSUME NEW a \in 1..MaxAttempts
               PROVE  /\ ended'[a] = "stopped" => \A i \in 1..MaxMounts : client'[a][i] # "open"
                      /\ a > attempt \/ (a = attempt /\ status' # "over") => ended'[a] = "no"
    BY DEF OrphanInv
  <1>1. attempt \in 1..MaxAttempts
        /\ ended \in [1..MaxAttempts -> {"no", "failed", "stopped", "stopped by own lifespan"}]
    BY DEF OrphanInv, TypeInv, TypeOK
  <1>2. ended'[attempt] \in {"no", "failed"} /\ (status' # "over" => ended'[attempt] = "no")
    BY <1>1 DEF OrphanInv, Fail
  <1>3. a # attempt => ended'[a] = ended[a]
    BY <1>1 DEF Fail
  <1>4. CASE a = attempt
    BY <1>2, <1>4 DEF OrphanInv
  <1>5. CASE a # attempt
    <2>1. /\ ended[a] = "stopped" => \A i \in 1..MaxMounts : client[a][i] # "open"
          /\ a > attempt => ended[a] = "no"
      BY DEF OrphanInv
    <2>2. client'[a] = client[a] /\ attempt' = attempt
      BY <1>5
    <2>3. QED
      BY <1>3, <1>5, <2>1, <2>2
  <1>6. QED
    BY <1>4, <1>5

LEMMA OrphanNext == OrphanInv /\ [Next]_vars => OrphanInv'
  <1> SUFFICES ASSUME OrphanInv, [Next]_vars PROVE OrphanInv'
    OBVIOUS
  <1>1. TypeInv /\ TypeInv'
    BY TypeNext DEF OrphanInv
  <1>2. /\ attempt \in 1..MaxAttempts
        /\ ended \in [1..MaxAttempts -> {"no", "failed", "stopped", "stopped by own lifespan"}]
        /\ client \in [1..MaxAttempts -> [1..MaxMounts -> {"none", "open", "closed"}]]
    BY <1>1 DEF TypeInv, TypeOK
  <1>12. \A a \in 1..MaxAttempts : a \in Nat
    BY BoundAssumption
  <1>13. attempt \in Nat
    BY <1>2, <1>12
  <1>3. CASE Start
    BY <1>1, <1>3, OrphanBuildStep DEF Start
  <1>4. CASE CheckPrefix \/ BuildAuth \/ BuildSources \/ Construct \/ AddMiddleware
             \/ AllRegistered \/ LoadExtensions
    <2>1. /\ status = "building" /\ UNCHANGED <<attempt, client>>
          /\ UNCHANGED <<status, ended>> \/ Fail
      BY <1>4 DEF CheckPrefix, BuildAuth, BuildSources, Construct, AddMiddleware,
                  AllRegistered, LoadExtensions, Building, Proceed
    <2>2. QED
      BY <1>1, <2>1, OrphanBuildStep
  <1>5. CASE BuildClient
    <2>1. \A a \in 1..MaxAttempts : a # attempt => client'[a] = client[a]
      BY <1>2, <1>5 DEF BuildClient
    <2>2. QED
      BY <1>1, <1>5, <2>1, OrphanBuildStep DEF BuildClient, Building, Proceed
  <1>6. CASE RegisterNext
    BY <1>1, <1>6, OrphanBuildStep DEF RegisterNext, Register, Building, Proceed
  <1>7. CASE Mount \/ Serve
    BY <1>1, <1>7, OrphanBuildStep DEF Mount, Serve, Fail, Building
  <1>8. CASE Stop
    <2> SUFFICES ASSUME NEW a \in 1..MaxAttempts
                 PROVE  /\ ended'[a] = "stopped" => \A i \in 1..MaxMounts : client'[a][i] # "open"
                        /\ a > attempt \/ (a = attempt /\ status' # "over") => ended'[a] = "no"
      BY <1>1, <1>8 DEF OrphanInv, Stop
    <2>1. a # attempt => ended'[a] = ended[a] /\ client'[a] = client[a]
      BY <1>2, <1>8 DEF Stop
    <2>2. ended'[attempt] = "stopped" => \A i \in 1..MaxMounts : client'[attempt][i] # "open"
      <3>1. plan.ownLifespan => ended'[attempt] # "stopped"
        BY <1>2, <1>8 DEF Stop
      <3>2. ~plan.ownLifespan =>
              client'[attempt] = [i \in 1..MaxMounts |-> Closed(client[attempt][i])]
        BY <1>2, <1>8 DEF Stop
      <3>3. \A i \in 1..MaxMounts : Closed(client[attempt][i]) # "open"
        BY <1>2 DEF Closed
      <3>4. QED
        BY <3>1, <3>2, <3>3
    <2>3. /\ ended[a] = "stopped" => \A i \in 1..MaxMounts : client[a][i] # "open"
          /\ a > attempt => ended[a] = "no"
      BY DEF OrphanInv
    <2>4. status' = "over" /\ attempt' = attempt /\ attempt \in Nat /\ a \in Nat
      BY <1>8, <1>12, <1>13 DEF Stop
    <2>5. QED
      BY <2>1, <2>2, <2>3, <2>4
  <1>9. CASE Again
    <2>1. attempt' = attempt + 1 /\ client' = client /\ ended' = ended
      BY <1>9 DEF Again
    <2>2. \A a \in 1..MaxAttempts : a > attempt' \/ a = attempt' => a > attempt
      BY <1>12, <1>13, <2>1
    <2>3. QED
      BY <1>1, <2>1, <2>2 DEF OrphanInv
  <1>10. CASE UNCHANGED vars
    BY <1>1, <1>10 DEF vars, OrphanInv
  <1>11. QED
    BY <1>3, <1>4, <1>5, <1>6, <1>7, <1>8, <1>9, <1>10 DEF Next

\* However many servers a process builds, fails to build, serves and stops: one that was
\* stopped with the default lifespan leaves no client open (app.py:101-110).
THEOREM OnlyFailuresOrphan == Spec => []OrphansHaveACause
  <1>1. OrphanInv => OrphansHaveACause
    BY DEF OrphanInv, OrphansHaveACause
  <1>2. QED
    BY <1>1, OrphanInit, OrphanNext, PTL DEF Spec

-----------------------------------------------------------------------------
(* Names.                                                                  *)

LEMMA PrefixOfEqual ==
  ASSUME NEW p \in Seq(Word), NEW q \in Seq(Word), NEW t \in Seq(Word), NEW u \in Seq(Word),
         p \o t = q \o u, p # q, Len(p) <= Len(q)
  PROVE  IsStrictPrefix(p, q)
  <1> DEFINE n == Len(p)
             x == SubSeq(p, 1, n)
             y == SubSeq(q, 1, n)
  <1>1. n \in Nat /\ Len(q) \in Nat /\ n <= Len(q)
    OBVIOUS
  <1>2. \A i \in 1..n : p[i] = q[i]
    <2>1. \A i \in 1..n : p[i] = (p \o t)[i]
      OBVIOUS
    <2>2. \A i \in 1..n : q[i] = (q \o u)[i]
      OBVIOUS
    <2>3. QED
      BY <2>1, <2>2
  <1>3. /\ \A i \in 1..n : p[i] \in Word
        /\ \A i \in 1..n : q[i] \in Word
    BY <1>1
  <1> HIDE DEF n
  <1>4. /\ x \in Seq(Word) /\ Len(x) = n
        /\ \A i \in 1..n : x[i] = p[i]
    <2>1. /\ x \in Seq(Word) /\ Len(x) = IF 1 <= n THEN n - 1 + 1 ELSE 0
          /\ \A i \in 1..(n - 1 + 1) : x[i] = p[1 + i - 1]
      BY <1>1, <1>3, SubSeqProperties
    <2> HIDE DEF x
    <2>2. QED
      BY <1>1, <2>1
  <1>5. /\ y \in Seq(Word) /\ Len(y) = n
        /\ \A i \in 1..n : y[i] = q[i]
    <2>1. /\ y \in Seq(Word) /\ Len(y) = IF 1 <= n THEN n - 1 + 1 ELSE 0
          /\ \A i \in 1..(n - 1 + 1) : y[i] = q[1 + i - 1]
      BY <1>1, <1>3, SubSeqProperties
    <2> HIDE DEF y
    <2>2. QED
      BY <1>1, <2>1
  <1>6. x = y
    <2> HIDE DEF x, y
    <2>1. QED
      BY <1>2, <1>4, <1>5, SeqEqual
  <1>7. QED
    BY <1>1, <1>6 DEF IsStrictPrefix, IsPrefix, n

LEMMA EqualNamesNest ==
  ASSUME NEW p \in Seq(Word), NEW q \in Seq(Word), NEW t \in Seq(Word), NEW u \in Seq(Word),
         p \o t = q \o u, p # q
  PROVE  IsStrictPrefix(p, q) \/ IsStrictPrefix(q, p)
  <1>1. Len(p) \in Nat /\ Len(q) \in Nat
    OBVIOUS
  <1>2. Len(p) <= Len(q) \/ Len(q) <= Len(p)
    BY <1>1
  <1>3. CASE Len(p) <= Len(q)
    BY <1>3, PrefixOfEqual
  <1>4. CASE Len(q) <= Len(p)
    BY <1>4, PrefixOfEqual
  <1>5. QED
    BY <1>2, <1>3, <1>4

\* The prefixes that a gateway has accepted so far differ.
Accepted == IF status = "building" /\ step = "prefix" THEN mount - 1 ELSE mount

PrefixInv ==
  /\ TypeInv
  /\ plan.gateway /\ status \in {"building", "built", "serving"} =>
       \A i, k \in 1..Accepted : i < k => Prefix(i) # Prefix(k)

LEMMA PrefixInit == Init => PrefixInv
  BY TypeInit DEF Init, PrefixInv

LEMMA PrefixNext == PrefixInv /\ [Next]_vars => PrefixInv'
  <1> SUFFICES ASSUME PrefixInv, [Next]_vars PROVE PrefixInv'
    OBVIOUS
  <1>1. TypeInv /\ TypeInv'
    BY TypeNext DEF PrefixInv
  <1>2. mount \in Nat
    <2>1. mount \in 1..(MaxMounts + 1)
      BY <1>1 DEF TypeInv, TypeOK
    <2>2. QED
      BY <2>1, BoundAssumption
  <1>3. CASE Start
    <2>1. plan.gateway' /\ status' \in {"building", "built", "serving"} =>
            mount' = 1 /\ status' = "building" /\ step' = "prefix"
      BY <1>1, <1>3 DEF Start, Fail, TypeInv, MountInRange
    <2>2. QED
      BY <1>1, <2>1 DEF PrefixInv, Accepted
  <1>4. CASE CheckPrefix
    <2>1. CASE Fail
      BY <1>1, <2>1 DEF PrefixInv, Fail
    <2>2. CASE ~Fail
      <3>1. /\ step = "prefix" /\ status = "building" /\ step' = "auth"
            /\ UNCHANGED <<status, mount, plan>> /\ Prefix(mount) \notin Seen
        BY <1>4, <2>2 DEF CheckPrefix, Building, Proceed
      <3>2. \A i \in 1..(mount - 1) : Prefix(i) # Prefix(mount)
        BY <3>1 DEF Seen
      <3>3. \A i, k \in 1..mount : i < k => i \in 1..(mount - 1) /\ (k = mount \/ k \in 1..(mount - 1))
        BY <1>2
      <3>4. Accepted = mount - 1 /\ Accepted' = mount
        BY <3>1 DEF Accepted
      <3>5. \A i : Prefix(i)' = Prefix(i)
        BY <3>1 DEF Prefix
      <3>6. QED
        BY <1>1, <3>1, <3>2, <3>3, <3>4, <3>5 DEF PrefixInv
    <2>3. QED
      BY <2>1, <2>2
  <1>5. ASSUME UNCHANGED <<plan, mount>>, status' = status \/ status = "built",
               step # "prefix" \/ status # "building", step' # "prefix" \/ status' # "building"
        PROVE  PrefixInv'
    BY <1>1, <1>5 DEF PrefixInv, Accepted, Prefix
  <1>6. CASE BuildAuth \/ BuildClient \/ BuildSources \/ Construct \/ AddMiddleware
             \/ RegisterNext \/ AllRegistered \/ LoadExtensions
    <2>1. status = "building" /\ step # "prefix" /\ UNCHANGED <<plan, mount>>
          /\ (Fail \/ (step' # "prefix" /\ UNCHANGED status))
      BY <1>6 DEF BuildAuth, BuildClient, BuildSources, Construct, AddMiddleware, RegisterNext,
                  Register, AllRegistered, LoadExtensions, Building, Proceed
    <2>2. QED
      BY <1>1, <1>5, <2>1 DEF PrefixInv, Fail
  <1>7. CASE Mount
    <2>1. /\ status = "building" /\ step # "prefix" /\ UNCHANGED plan
          /\ \/ mount' = mount + 1 /\ step' = "prefix" /\ status' = "building"
             \/ mount' = mount /\ status' = "built"
      BY <1>7 DEF Mount, Building
    <2>2. Accepted = mount /\ Accepted' = mount
      BY <1>2, <2>1 DEF Accepted
    <2>3. QED
      BY <1>1, <2>1, <2>2 DEF PrefixInv, Prefix
  <1>8. CASE Serve
    BY <1>1, <1>8 DEF Serve, Fail, PrefixInv, Accepted, Prefix
  <1>9. CASE Stop \/ Again
    BY <1>1, <1>9 DEF Stop, Again, PrefixInv
  <1>10. CASE UNCHANGED vars
    BY <1>1, <1>10 DEF vars, PrefixInv, Accepted, Prefix
  <1>11. QED
    BY <1>3, <1>4, <1>6, <1>7, <1>8, <1>9, <1>10 DEF Next

\* Two mounts of a gateway share a name only if one's prefix begins with the other's, for
\* any prefixes, profiles and tool names (gateway.py:58-69).
THEOREM NamesakesNest == Spec => []NamesakesNeedNestedPrefixes
  <1>1. PrefixInv => NamesakesNeedNestedPrefixes
    <2> SUFFICES ASSUME PrefixInv, Up, plan.gateway, NEW i \in Mounts, NEW k \in Mounts,
                        i # k, Collide(i, k)
                 PROVE  \/ IsStrictPrefix(Prefix(i), Prefix(k))
                        \/ IsStrictPrefix(Prefix(k), Prefix(i))
      BY DEF NamesakesNeedNestedPrefixes
    <2>1. plan \in Plan /\ surface \in [1..MaxMounts -> SUBSET Name]
      BY DEF PrefixInv, TypeInv, TypeOK
    <2>2. Len(plan.mounts) \in 0..MaxMounts /\ MaxMounts \in Nat
      BY <2>1, PlanTyped, BoundAssumption
    <2>3. i \in 1..MaxMounts /\ k \in 1..MaxMounts /\ i \in Nat /\ k \in Nat
      BY <2>2 DEF Mounts
    <2>4. Prefix(i) \in Seq(Word) /\ Prefix(k) \in Seq(Word)
      BY <2>1, PlanTyped DEF Mounts, Prefix
    <2>5. Prefix(i) # Prefix(k)
      <3>1. Accepted = Len(plan.mounts)
        BY DEF Up, Accepted, PrefixInv, TypeInv, MountInRange
      <3>2. i < k \/ k < i
        BY <2>3
      <3>3. QED
        BY <3>1, <3>2 DEF PrefixInv, Up, Mounts
    <2>6. PICK t \in surface[i], u \in surface[k] : Prefix(i) \o t = Prefix(k) \o u
      BY DEF Collide, Exposed
    <2>7. t \in Seq(Word) /\ u \in Seq(Word)
      BY <2>1, <2>3 DEF Name
    <2>8. QED
      BY <2>4, <2>5, <2>6, <2>7, EqualNamesNest
  <1>2. QED
    BY <1>1, PrefixInit, PrefixNext, PTL DEF Spec

-----------------------------------------------------------------------------
(* Whole servers.                                                          *)

\* What profile p's sources offer, of the registering ones those before the n-th.
SoFar(p, n) ==
  UNION {p.sources[k].tools : k \in Constructing(p) \cup {j \in Registering(p) : j < n}}

Whole(i) == surface[i] = Offered(Profile(i))
Connected(i) == client[attempt][i] = "open" <=> Profile(i).backend

\* The mounts before the current one are whole; the current one has what the steps of its
\* build that are behind it have made.
WholeInv ==
  /\ TypeInv
  /\ status \in {"building", "built", "serving"} =>
       \A i \in 1..(mount - 1) : Whole(i) /\ Connected(i)
  /\ Up => Whole(mount) /\ Connected(mount)
  /\ status = "building" =>
       /\ step \notin {"prefix", "auth", "client"} => Connected(mount)
       /\ step \notin {"prefix", "auth", "client", "sources"} =>
            Cardinality(Constructing(Profile(mount))) <= 1
       /\ step = "middleware" => source = 1
       /\ step \in {"middleware", "register"} => surface[mount] = SoFar(Profile(mount), source)
       /\ step \in {"extensions", "mount"} => Whole(mount)

\* A profile with at most one constructing source has no second one.
LEMMA OneConstructing ==
  ASSUME NEW p \in ServerProfile, Cardinality(Constructing(p)) <= 1,
         NEW j \in Constructing(p), NEW k \in Constructing(p)
  PROVE  j = k
  <1>1. Len(p.sources) \in Nat
    BY LenProperties DEF ServerProfile
  <1>2. IsFiniteSet(1..Len(p.sources))
    BY <1>1, FS_Interval
  <1>3. IsFiniteSet(Constructing(p))
    BY <1>2, FS_Subset DEF Constructing
  <1>4. Cardinality(Constructing(p)) \in Nat /\ Cardinality(Constructing(p)) # 0
    BY <1>3, FS_CardinalityType, FS_EmptySet
  <1>5. Cardinality(Constructing(p)) = 1
    BY <1>4
  <1>6. PICK x : Constructing(p) = {x}
    BY <1>3, <1>5, FS_Singleton
  <1>7. QED
    BY <1>6

\* A step that makes nothing and goes on to the next one, or leaves the build.
LEMMA WholeOtherStep ==
  ASSUME WholeInv, TypeInv', status = "building",
         UNCHANGED <<plan, attempt, mount, source, surface, client>>,
         \/ Fail
         \/ /\ UNCHANGED status
            /\ \/ step = "prefix" /\ step' = "auth"
               \/ step = "auth" /\ step' = "client"
               \/ /\ step = "sources" /\ step' = "construct"
                  /\ Cardinality(Constructing(Profile(mount))) <= 1
               \/ step = "middleware" /\ step' = "register"
               \/ step = "register" /\ step' = "extensions" /\ Whole(mount)
               \/ step = "extensions" /\ step' = "mount"
  PROVE  WholeInv'
  <1>1. \A i : /\ Profile(i)' = Profile(i) /\ (Whole(i)' <=> Whole(i))
               /\ (Connected(i)' <=> Connected(i))
    BY DEF Profile, Whole, Connected
  <1>2. /\ Profile(mount)' = Profile(mount)
        /\ Whole(mount)' <=> Whole(mount)
        /\ Connected(mount)' <=> Connected(mount)
        /\ SoFar(Profile(mount), source)' = SoFar(Profile(mount), source)
        /\ Constructing(Profile(mount))' = Constructing(Profile(mount))
    BY DEF Profile, Whole, Connected, SoFar, Constructing, Registering
  <1>3. CASE Fail
    BY <1>3 DEF Fail, WholeInv, Up
  <1>4. CASE UNCHANGED status
    <2>1. \A i \in 1..(mount' - 1) : Whole(i)' /\ Connected(i)'
      BY <1>1 DEF WholeInv
    <2>2. CASE step' \in {"auth", "client"}
      BY <1>4, <2>1, <2>2 DEF WholeInv, Up
    <2>3. CASE step' = "construct"
      BY <1>2, <1>4, <2>1, <2>3 DEF WholeInv, Up, Fail
    <2>4. CASE step' = "register"
      <3>1. step = "middleware" \/ step = "register"
        BY <2>4 DEF Fail
      <3>2. CASE step = "middleware"
        <4>1. surface'[mount'] = SoFar(Profile(mount), source)'
          BY <1>2, <3>2 DEF WholeInv
        <4>2. QED
          BY <1>2, <1>4, <2>1, <2>4, <3>2, <4>1 DEF WholeInv, Up
      <3>3. CASE step = "register"
        BY <1>4, <2>4, <3>3 DEF Fail
      <3>4. QED
        BY <3>1, <3>2, <3>3
    <2>5. CASE step' \in {"extensions", "mount"}
      BY <1>2, <1>4, <2>1, <2>5 DEF WholeInv, Up, Fail
    <2>6. QED
      BY <1>4, <2>2, <2>3, <2>4, <2>5 DEF Fail
  <1>5. QED
    BY <1>3, <1>4

\* The build that is going on, and what it makes.
LEMMA BuildingTyped ==
  ASSUME TypeInv, status = "building"
  PROVE  /\ mount \in 1..MaxMounts /\ mount \in Nat
         /\ Profile(mount) \in ServerProfile /\ Len(Profile(mount).sources) \in Nat
         /\ attempt \in 1..MaxAttempts /\ source \in Nat
         /\ surface \in [1..MaxMounts -> SUBSET Name]
         /\ client \in [1..MaxAttempts -> [1..MaxMounts -> {"none", "open", "closed"}]]
  <1>1. mount \in 1..MaxMounts /\ Profile(mount) \in ServerProfile
    BY SourcesTyped
  <1>2. mount \in Nat
    BY <1>1, BoundAssumption
  <1>3. Len(Profile(mount).sources) \in Nat
    BY <1>1, LenProperties DEF ServerProfile
  <1>4. QED
    BY <1>1, <1>2, <1>3 DEF TypeInv, TypeOK

LEMMA WholeInit == Init => WholeInv
  BY TypeInit DEF Init, WholeInv, Up

LEMMA WholeClient ==
  ASSUME WholeInv, TypeInv', BuildClient
  PROVE  WholeInv'
  <1>1. /\ UNCHANGED <<plan, attempt, mount, source, surface>>
        /\ status = "building" /\ step = "client"
    BY DEF BuildClient, Building
  <1>2. \A i : Profile(i)' = Profile(i) /\ (Whole(i)' <=> Whole(i))
    BY <1>1 DEF Profile, Whole
  <1>3. CASE Fail
    BY <1>3 DEF Fail, WholeInv, Up
  <1>4. CASE /\ Proceed("sources")
             /\ client' = [client EXCEPT ![attempt][mount] =
                             IF Profile(mount).backend THEN "open" ELSE "none"]
    <2>1. /\ mount \in 1..MaxMounts /\ mount \in Nat /\ attempt \in 1..MaxAttempts
          /\ client \in [1..MaxAttempts -> [1..MaxMounts -> {"none", "open", "closed"}]]
      BY <1>1, BuildingTyped DEF WholeInv
    <2>2. PICK x : x = IF Profile(mount).backend THEN "open" ELSE "none"
      OBVIOUS
    <2>3. client'[attempt] = [client[attempt] EXCEPT ![mount] = x]
      BY <1>4, <2>1, <2>2
    <2>4. client'[attempt][mount] = x
      BY <2>1, <2>3
    <2>5. Connected(mount)'
      BY <1>1, <1>2, <2>2, <2>4 DEF Connected
    <2>6. \A i \in 1..(mount - 1) : client'[attempt][i] = client[attempt][i]
      BY <2>1, <2>3
    <2>7. \A i \in 1..(mount - 1) : Connected(i)' <=> Connected(i)
      BY <1>1, <1>2, <2>6 DEF Connected
    <2>8. QED
      BY <1>1, <1>2, <1>4, <2>5, <2>7 DEF WholeInv, Up, Proceed
  <1>5. QED
    BY <1>3, <1>4 DEF BuildClient

LEMMA WholeConstruct ==
  ASSUME WholeInv, TypeInv', Construct
  PROVE  WholeInv'
  <1>1. /\ UNCHANGED <<plan, attempt, mount, client>> /\ source' = 1
        /\ status = "building" /\ step = "construct"
    BY DEF Construct, Building
  <1>2. \A i : Profile(i)' = Profile(i) /\ (Connected(i)' <=> Connected(i))
    BY <1>1 DEF Profile, Connected
  <1>3. CASE Fail
    BY <1>3 DEF Fail, WholeInv, Up
  <1>4. CASE ~Fail
    <2>1. /\ mount \in 1..MaxMounts /\ mount \in Nat /\ Profile(mount) \in ServerProfile
          /\ surface \in [1..MaxMounts -> SUBSET Name]
      BY <1>1, BuildingTyped DEF WholeInv
    <2>2. Proceed("middleware") /\ Cardinality(Constructing(Profile(mount))) <= 1
      BY <1>1, <1>4 DEF Construct, WholeInv
    <2>3. {j \in Registering(Profile(mount)) : j < 1} = {}
      <3>1. Len(Profile(mount).sources) \in Nat
        BY <2>1, LenProperties DEF ServerProfile
      <3>2. QED
        BY <3>1 DEF Registering
    <2>4. surface' = [surface EXCEPT ![mount] = SoFar(Profile(mount), 1)]
      <3>1. CASE Constructing(Profile(mount)) = {}
        <4>1. SoFar(Profile(mount), 1) = {}
          BY <2>3, <3>1 DEF SoFar
        <4>2. QED
          BY <1>4, <3>1, <4>1 DEF Construct
      <3>2. CASE Constructing(Profile(mount)) # {}
        <4>1. PICK k \in Constructing(Profile(mount)) :
                surface' = [surface EXCEPT ![mount] = Profile(mount).sources[k].tools]
          BY <1>4, <3>2 DEF Construct
        <4>2. Constructing(Profile(mount)) = {k}
          BY <2>1, <2>2, OneConstructing
        <4>3. SoFar(Profile(mount), 1) = Profile(mount).sources[k].tools
          BY <2>3, <4>2 DEF SoFar
        <4>4. QED
          BY <4>1, <4>3
      <3>3. QED
        BY <3>1, <3>2
    <2>5. surface'[mount] = SoFar(Profile(mount), 1)
      BY <2>1, <2>4
    <2>6. \A i \in 1..(mount - 1) : surface'[i] = surface[i]
      BY <2>1, <2>4
    <2>7. \A i \in 1..(mount - 1) : Whole(i)' <=> Whole(i)
      BY <1>2, <2>6 DEF Whole
    <2>8. (surface[mount] = SoFar(Profile(mount), source))'
      BY <1>1, <1>2, <2>5 DEF SoFar, Constructing, Registering
    <2>9. QED
      BY <1>1, <1>2, <2>2, <2>7, <2>8 DEF WholeInv, Up, Proceed
  <1>5. QED
    BY <1>3, <1>4

LEMMA WholeRegister ==
  ASSUME WholeInv, TypeInv', Building("register"), NEW k \in Pending, Register(k)
  PROVE  WholeInv'
  <1> DEFINE T == Profile(mount).sources[k].tools
  <1>1. /\ UNCHANGED <<plan, attempt, mount, client>> /\ IsNext(k)
        /\ status = "building" /\ step = "register"
        /\ \/ /\ surface' = [surface EXCEPT ![mount] = @ \cup T]
              /\ source' = k + 1
              /\ Proceed("register")
           \/ Fail
    BY DEF Register, Building
  <1>2. \A i : Profile(i)' = Profile(i) /\ (Connected(i)' <=> Connected(i))
    BY <1>1 DEF Profile, Connected
  <1>3. CASE Fail
    BY <1>3 DEF Fail, WholeInv, Up
  <1>4. CASE ~Fail
    <2>1. /\ mount \in 1..MaxMounts /\ mount \in Nat /\ Profile(mount) \in ServerProfile
          /\ surface \in [1..MaxMounts -> SUBSET Name] /\ source \in Nat
          /\ Len(Profile(mount).sources) \in Nat
      BY <1>1, BuildingTyped DEF WholeInv
    <2>2. /\ k \in Registering(Profile(mount)) /\ k >= source
          /\ \A j \in Registering(Profile(mount)) : j >= source => k <= j
      BY <1>1 DEF IsNext, Pending
    <2>3. {j \in Registering(Profile(mount)) : j < k + 1}
            = {j \in Registering(Profile(mount)) : j < source} \cup {k}
      BY <2>1, <2>2 DEF Registering
    <2>4. SoFar(Profile(mount), k + 1) = SoFar(Profile(mount), source) \cup T
      BY <2>3 DEF SoFar
    <2>5. surface[mount] = SoFar(Profile(mount), source)
      BY <1>1 DEF WholeInv
    <2>6. PICK t : t = T
      OBVIOUS
    <2>7. surface' = [surface EXCEPT ![mount] = surface[mount] \cup t]
      BY <1>1, <1>4, <2>6
    <2>8. /\ surface'[mount] = surface[mount] \cup t
          /\ \A i \in 1..(mount - 1) : surface'[i] = surface[i]
      BY <2>1, <2>7
    <2>9. surface'[mount] = SoFar(Profile(mount), k + 1)
      BY <2>4, <2>5, <2>6, <2>8
    <2>10. \A i \in 1..(mount - 1) : Whole(i)' <=> Whole(i)
      BY <1>2, <2>8 DEF Whole
    <2>11. (surface[mount] = SoFar(Profile(mount), source))'
      BY <1>1, <1>2, <1>4, <2>9 DEF SoFar, Constructing, Registering
    <2>12. QED
      BY <1>1, <1>2, <1>4, <2>10, <2>11 DEF WholeInv, Up, Proceed
  <1>5. QED
    BY <1>3, <1>4

LEMMA WholeMount ==
  ASSUME WholeInv, TypeInv', Mount
  PROVE  WholeInv'
  <1>1. /\ UNCHANGED <<plan, attempt, source, surface, client>>
        /\ status = "building" /\ step = "mount"
        /\ \/ mount' = mount + 1 /\ step' = "prefix" /\ UNCHANGED status
           \/ status' = "built" /\ UNCHANGED <<mount, step>>
    BY DEF Mount, Building
  <1>2. \A i : (Whole(i)' <=> Whole(i)) /\ (Connected(i)' <=> Connected(i))
    BY <1>1 DEF Profile, Whole, Connected
  <1>3. Whole(mount) /\ Connected(mount)
    BY <1>1 DEF WholeInv
  <1>4. mount \in Nat
    BY <1>1, BuildingTyped DEF WholeInv
  <1>5. \A i \in 1..mount : i \in 1..(mount - 1) \/ i = mount
    BY <1>4
  <1>6. \A i \in 1..mount : Whole(i) /\ Connected(i)
    BY <1>1, <1>3, <1>5 DEF WholeInv
  <1>7. CASE mount' = mount + 1 /\ step' = "prefix" /\ UNCHANGED status
    <2>1. mount' - 1 = mount
      BY <1>4, <1>7
    <2>2. \A i \in 1..(mount' - 1) : Whole(i)' /\ Connected(i)'
      BY <1>2, <1>6, <2>1
    <2>3. QED
      BY <1>1, <1>7, <2>2 DEF WholeInv, Up
  <1>8. CASE status' = "built" /\ UNCHANGED <<mount, step>>
    <2>1. Whole(mount)' /\ Connected(mount)'
      BY <1>1, <1>3, <1>8 DEF Profile, Whole, Connected
    <2>2. QED
      BY <1>1, <1>2, <1>8, <2>1 DEF WholeInv, Up
  <1>9. QED
    BY <1>1, <1>7, <1>8

LEMMA WholeNext == WholeInv /\ [Next]_vars => WholeInv'
  <1> SUFFICES ASSUME WholeInv, [Next]_vars PROVE WholeInv'
    OBVIOUS
  <1>t. TypeInv'
    BY TypeNext DEF WholeInv
  <1>1. CASE Start
    <2>1. mount' = 1 /\ (status' = "over" \/ (status' = "building" /\ step' \in {"prefix", "auth"}))
      BY <1>1 DEF Start, Fail, WholeInv, TypeInv, MountInRange
    <2>2. QED
      BY <1>t, <2>1 DEF WholeInv, Up
  <1>2. CASE CheckPrefix \/ BuildAuth \/ BuildSources \/ AddMiddleware \/ LoadExtensions
    <2>1. CASE CheckPrefix
      BY <1>t, <2>1, WholeOtherStep DEF CheckPrefix, Building, Proceed
    <2>2. CASE BuildAuth
      BY <1>t, <2>2, WholeOtherStep DEF BuildAuth, Building, Proceed
    <2>3. CASE BuildSources
      BY <1>t, <2>3, WholeOtherStep DEF BuildSources, Building, Proceed
    <2>4. CASE AddMiddleware
      BY <1>t, <2>4, WholeOtherStep DEF AddMiddleware, Building, Proceed
    <2>5. CASE LoadExtensions
      BY <1>t, <2>5, WholeOtherStep DEF LoadExtensions, Building, Proceed
    <2>6. QED
      BY <1>2, <2>1, <2>2, <2>3, <2>4, <2>5
  <1>3. CASE BuildClient
    BY <1>t, <1>3, WholeClient
  <1>4. CASE Construct
    BY <1>t, <1>4, WholeConstruct
  <1>5. CASE RegisterNext
    BY <1>t, <1>5, WholeRegister DEF RegisterNext
  <1>6. CASE AllRegistered
    <2>1. /\ status = "building" /\ step = "register" /\ Pending = {} /\ Proceed("extensions")
          /\ UNCHANGED <<plan, attempt, mount, source, surface, client>>
      BY <1>6 DEF AllRegistered, Building
    <2>2. {j \in Registering(Profile(mount)) : j < source} = Registering(Profile(mount))
      <3>1. source \in Nat /\ Len(Profile(mount).sources) \in Nat
        BY <2>1, BuildingTyped DEF WholeInv
      <3>2. QED
        BY <2>1, <3>1 DEF Pending, Registering
    <2>3. Constructing(Profile(mount)) \cup Registering(Profile(mount))
            = 1..Len(Profile(mount).sources)
      BY DEF Constructing, Registering
    <2>4. Whole(mount)
      BY <2>1, <2>2, <2>3 DEF WholeInv, SoFar, Whole, Offered
    <2>5. QED
      BY <1>t, <2>1, <2>4, WholeOtherStep DEF Proceed
  <1>7. CASE Mount
    BY <1>t, <1>7, WholeMount
  <1>8. CASE Serve \/ UNCHANGED vars
    <2>1. /\ UNCHANGED <<plan, attempt, mount, source, surface, client>>
          /\ \/ status = "built" /\ status' \in {"serving", "over"}
             \/ UNCHANGED <<status, step>>
      BY <1>8 DEF Serve, Fail, vars
    <2>2. \A i : /\ Profile(i)' = Profile(i) /\ (Whole(i)' <=> Whole(i))
                 /\ (Connected(i)' <=> Connected(i))
      BY <2>1 DEF Profile, Whole, Connected
    <2>3. QED
      BY <1>t, <2>1, <2>2 DEF WholeInv, Up
  <1>9. CASE Stop \/ Again
    BY <1>t, <1>9 DEF Stop, Again, WholeInv, Up
  <1>10. QED
    BY <1>1, <1>2, <1>3, <1>4, <1>5, <1>6, <1>7, <1>8, <1>9 DEF Next

\* What is served is whole: each mount has every tool that its profile names and an open
\* client if it has a backend, whatever was built or failed before in the process
\* (app.py:91-159, plugins.py:184-195).
THEOREM ServedIsWhole == Spec => []ServingIsWhole
  <1>1. WholeInv => ServingIsWhole
    <2> SUFFICES ASSUME WholeInv, Up, NEW i \in Mounts PROVE Whole(i) /\ Connected(i)
      BY DEF ServingIsWhole, Whole, Connected
    <2>1. mount = Len(plan.mounts) /\ mount \in Nat
      <3>1. mount = Len(plan.mounts) /\ plan \in Plan
        BY DEF WholeInv, Up, TypeInv, TypeOK, MountInRange
      <3>2. QED
        BY <3>1, PlanTyped, BoundAssumption
    <2>2. i = mount \/ i \in 1..(mount - 1)
      BY <2>1 DEF Mounts
    <2>3. QED
      BY <2>2 DEF WholeInv, Up
  <1>2. QED
    BY <1>1, WholeInit, WholeNext, PTL DEF Spec

-----------------------------------------------------------------------------
(* The process's steps are Gateway's, or leave its variables alone.        *)

LEMMA ProcessStepsGateway == [ProcessNext]_processVars => [Next]_vars
  <1> SUFFICES ASSUME [ProcessNext]_processVars PROVE [Next]_vars
    OBVIOUS
  <1>1. CASE \E c \in SettingsClass : ReloadSettings(c)
    BY <1>1 DEF ReloadSettings
  <1>2. CASE \E f \in SUBSET Fragment : SetUpFirst(f)
    BY <1>2 DEF SetUpFirst
  <1>3. CASE \E c \in Command : StartCommand(c)
    BY <1>3 DEF StartCommand, Next
  <1>4. CASE SetUpAndBuildAuth
    BY <1>4 DEF SetUpAndBuildAuth, Next
  <1>5. CASE ServeCommand
    BY <1>5 DEF ServeCommand, Next
  <1>6. CASE GatewayStep
    BY <1>6 DEF GatewayStep, Next
  <1>7. CASE UNCHANGED processVars
    BY <1>7 DEF processVars
  <1>8. CASE ResetLogging
    BY <1>8 DEF ResetLogging
  <1>9. QED
    BY <1>1, <1>2, <1>3, <1>4, <1>5, <1>6, <1>7, <1>8 DEF ProcessNext

\* What a step that is not the process's own does to the status: it ends, or it goes on
\* from being built, and neither the command nor the settings change.
LEMMA StatusMoves ==
  ASSUME TypeInv, GatewayStep
  PROVE  /\ UNCHANGED ownVars
         /\ \/ /\ UNCHANGED attempt
               /\ status \in {"building", "serving"} /\ status' \in {"building", "built", "over"}
            \/ status = "over" /\ status' = "idle" /\ attempt' = attempt + 1
  <1> USE DEF TypeInv, TypeOK, Building, Proceed, Fail
  <1>1. CASE CheckPrefix
    BY <1>1 DEF CheckPrefix, GatewayStep
  <1>2. CASE BuildClient
    BY <1>2 DEF BuildClient, GatewayStep
  <1>3. CASE BuildSources
    BY <1>3 DEF BuildSources, GatewayStep
  <1>4. CASE Construct
    BY <1>4 DEF Construct, GatewayStep
  <1>5. CASE AddMiddleware
    BY <1>5 DEF AddMiddleware, GatewayStep
  <1>6. CASE RegisterNext
    BY <1>6 DEF RegisterNext, Register, GatewayStep
  <1>7. CASE AllRegistered
    BY <1>7 DEF AllRegistered, GatewayStep
  <1>8. CASE LoadExtensions
    BY <1>8 DEF LoadExtensions, GatewayStep
  <1>9. CASE Mount
    BY <1>9 DEF Mount, GatewayStep
  <1>10. CASE Stop
    BY <1>10 DEF Stop, GatewayStep
  <1>11. CASE Again
    BY <1>11 DEF Again, GatewayStep
  <1>12. QED
    BY <1>1, <1>2, <1>3, <1>4, <1>5, <1>6, <1>7, <1>8, <1>9, <1>10, <1>11 DEF GatewayStep

-----------------------------------------------------------------------------
(* What the process has noted.                                             *)

Binding == [host : Host, port : Port]

\* A command of the class gave the option, and counts.
Gave(commands, a, option, c) ==
  commands[a].cls = c /\ Counts(option, commands[a][option])

\* The endpoint's part `option` of class c is the environment's, or what the latest of the
\* class's commands gave.
FromSomeone(commands, option, c, value) ==
  \/ value = Environ[option]
  \/ \E a \in 1..Len(commands) :
       /\ Gave(commands, a, option, c) /\ commands[a][option] = value
       /\ \A k \in 1..Len(commands) : k > a => ~Gave(commands, k, option, c)

\* Settings hold what the environment or a command of their class gave.
CachedTold ==
  \A c \in SettingsClass : cached[c] # NotCached =>
    /\ FromSomeone(command, "host", c, cached[c].host)
    /\ FromSomeone(command, "port", c, cached[c].port)

\* From its command until it is over, a build finds its own command's settings.
BuildsAsTold ==
  status \in {"building", "built", "serving"} =>
    LET bind == cached[command[attempt].cls]
    IN  bind # NotCached /\ Told("host", bind.host) /\ Told("port", bind.port)

ProcessInv == TypeInv /\ ProcessTypeOK /\ CachedTold /\ BuildsAsTold /\ ListensAsTold

LEMMA EnvironTyped == FromEnviron \in Binding /\ Environ \in Endpoint
  BY CommandAssumption DEF FromEnviron, Binding, Endpoint

\* The command of a build, and what it may contain.
LEMMA CommandTyped ==
  ASSUME NEW c \in Command
  PROVE  /\ c.cls \in SettingsClass
         /\ c.host \in Host \cup {NotGiven} /\ c.port \in Port \cup {NotGiven}
         /\ c.transport \in Transport \cup {NotGiven} /\ c.fragments \subseteq Fragment
  BY CommandAssumption

\* The counters agree, and a build that has begun has its command.
LEMMA LastTyped ==
  ASSUME TypeInv, ProcessTypeOK
  PROVE  /\ attempt \in Nat \ {0} /\ command \in Seq(Command) /\ Len(command) \in Nat
         /\ cached \in [SettingsClass -> Binding \cup {NotCached}]
         /\ status = "idle" => Len(command) = attempt - 1
         /\ status # "idle" => Len(command) = attempt /\ command[attempt] \in Command
  <1>1. attempt \in Nat \ {0}
    <2>1. attempt \in 1..MaxAttempts
      BY DEF TypeInv, TypeOK
    <2>2. QED
      BY <2>1, BoundAssumption
  <1>2. command \in Seq(Command) /\ Len(command) \in Nat
    BY LenProperties DEF ProcessTypeOK
  <1>3. status = "idle" => Len(command) = attempt - 1
    BY DEF ProcessTypeOK
  <1>4. status # "idle" => Len(command) = attempt
    BY DEF ProcessTypeOK
  <1>5. status # "idle" => command[attempt] \in Command
    BY <1>1, <1>2, <1>4, ElementOfSeq
  <1>6. QED
    BY <1>1, <1>2, <1>3, <1>4, <1>5 DEF ProcessTypeOK, Binding

LEMMA ProcessInvInit == ProcessInit => ProcessInv
  <1> SUFFICES ASSUME ProcessInit PROVE ProcessInv
    OBVIOUS
  <1>1. TypeInv
    BY TypeInit DEF ProcessInit
  <1>2. command \in Seq(Command) /\ Len(command) = 0
    BY EmptySeq DEF ProcessInit
  <1>3. attempt = 1 /\ status = "idle"
    BY DEF ProcessInit, Init
  <1>4. endpoint \in Endpoint
    BY EnvironTyped DEF ProcessInit
  <1>5. /\ cached = [c \in SettingsClass |-> NotCached]
        /\ cached \in [SettingsClass -> Binding \cup {NotCached}]
    BY DEF ProcessInit
  <1>6. Len(command) = IF status = "idle" THEN attempt - 1 ELSE attempt
    BY <1>2, <1>3
  <1>7. latched = FALSE /\ masked = {}
    BY DEF ProcessInit
  <1>8. ProcessTypeOK
    BY <1>2, <1>4, <1>5, <1>6, <1>7 DEF ProcessTypeOK, Binding
  <1>9. CachedTold /\ BuildsAsTold /\ ListensAsTold
    BY <1>3, <1>5 DEF CachedTold, BuildsAsTold, ListensAsTold
  <1>10. QED
    BY <1>1, <1>8, <1>9 DEF ProcessInv

-----------------------------------------------------------------------------
(* A command.                                                              *)

\* What it leaves in the settings.
Written(c) ==
  [host |-> Chosen(c, "host", GetSettings(c.cls).host),
   port |-> Chosen(c, "port", GetSettings(c.cls).port)]

LEMMA SettingsToldTyped ==
  ASSUME ProcessInv, NEW c \in SettingsClass
  PROVE  /\ GetSettings(c) \in Binding
         /\ FromSomeone(command, "host", c, GetSettings(c).host)
         /\ FromSomeone(command, "port", c, GetSettings(c).port)
  <1>1. cached[c] \in Binding \cup {NotCached}
    BY LastTyped DEF ProcessInv
  <1>2. CASE cached[c] = NotCached
    BY <1>2, EnvironTyped DEF GetSettings, FromSomeone, FromEnviron
  <1>3. CASE cached[c] # NotCached
    BY <1>1, <1>3 DEF GetSettings, ProcessInv, CachedTold
  <1>4. QED
    BY <1>2, <1>3

LEMMA WrittenTyped ==
  ASSUME ProcessInv, NEW c \in Command
  PROVE  Written(c) \in Binding /\ Written(c) # NotCached
  <1>1. GetSettings(c.cls) \in Binding
    BY CommandTyped, SettingsToldTyped
  <1>2. Chosen(c, "host", GetSettings(c.cls).host) \in Host
    BY <1>1, CommandTyped DEF Chosen, Counts, Binding
  <1>3. Chosen(c, "port", GetSettings(c.cls).port) \in Port
    BY <1>1, CommandTyped DEF Chosen, Counts, Binding
  <1>4. Written(c) \in Binding
    BY <1>2, <1>3 DEF Written, Binding
  <1>5. QED
    BY <1>4, CommandAssumption DEF Binding

\* What the latest of a class's commands gave, it still is when a command is appended that
\* gives the class nothing; one that gives something is the latest itself.
LEMMA FromSomeoneKept ==
  ASSUME NEW cs \in Seq(Command), NEW c \in Command, NEW cls, NEW value,
         NEW option \in {"host", "port"}
  PROVE  /\ ~(c.cls = cls /\ Counts(option, c[option])) =>
              (FromSomeone(cs, option, cls, value)
                 => FromSomeone(Append(cs, c), option, cls, value))
         /\ Counts(option, c[option]) =>
              FromSomeone(Append(cs, c), option, c.cls, c[option])
  <1> DEFINE new == Append(cs, c)
  <1>1. /\ Len(cs) \in Nat /\ Len(new) = Len(cs) + 1
        /\ \A a \in 1..Len(cs) : new[a] = cs[a]
        /\ new[Len(cs) + 1] = c
    BY AppendProperties, LenProperties
  <1> HIDE DEF new
  <1>2. ASSUME ~(c.cls = cls /\ Counts(option, c[option])), FromSomeone(cs, option, cls, value)
        PROVE  FromSomeone(new, option, cls, value)
    <2>1. CASE value = Environ[option]
      BY <2>1 DEF FromSomeone
    <2>2. CASE value # Environ[option]
      <3>1. PICK a \in 1..Len(cs) :
              /\ Gave(cs, a, option, cls) /\ cs[a][option] = value
              /\ \A k \in 1..Len(cs) : k > a => ~Gave(cs, k, option, cls)
        BY <1>2, <2>2 DEF FromSomeone
      <3>2. a \in 1..Len(new) /\ Gave(new, a, option, cls) /\ new[a][option] = value
        BY <1>1, <3>1 DEF Gave
      <3>3. ASSUME NEW k \in 1..Len(new), k > a PROVE ~Gave(new, k, option, cls)
        <4>1. CASE k = Len(cs) + 1
          BY <1>1, <1>2, <4>1 DEF Gave
        <4>2. CASE k # Len(cs) + 1
          BY <1>1, <3>1, <3>3, <4>2 DEF Gave
        <4>3. QED
          BY <4>1, <4>2
      <3>4. QED
        BY <3>2, <3>3 DEF FromSomeone
    <2>3. QED
      BY <2>1, <2>2
  <1>3. ASSUME Counts(option, c[option]) PROVE FromSomeone(new, option, c.cls, c[option])
    <2>1. /\ Len(new) \in 1..Len(new)
          /\ Gave(new, Len(new), option, c.cls) /\ new[Len(new)][option] = c[option]
      BY <1>1, <1>3 DEF Gave
    <2>2. \A k \in 1..Len(new) : ~(k > Len(new))
      BY <1>1
    <2>3. QED
      BY <2>1, <2>2 DEF FromSomeone
  <1>4. QED
    BY <1>2, <1>3 DEF new

\* What a new command finds or gives is told: it is its own, or the environment's or an
\* earlier command's where it gives nothing.
LEMMA ChosenTold ==
  ASSUME ProcessInv, NEW c \in Command, status = "idle", attempt' = attempt,
         command' = Append(command, c),
         NEW option \in {"host", "port"}, NEW old, FromSomeone(command, option, c.cls, old)
  PROVE  /\ Told(option, Chosen(c, option, old))'
         /\ FromSomeone(command', option, c.cls, Chosen(c, option, old))
  <1>1. /\ attempt \in Nat \ {0} /\ command \in Seq(Command) /\ Len(command) = attempt - 1
    BY LastTyped DEF ProcessInv
  <1>2. /\ Len(command') = attempt /\ command'[attempt] = c
        /\ \A a \in 1..(attempt - 1) : command'[a] = command[a]
    BY <1>1, AppendProperties
  <1>k. FromSomeone(command', option, c.cls, Chosen(c, option, old))
    BY <1>1, FromSomeoneKept DEF Chosen
  <1>3. CASE Counts(option, c[option])
    <2>1. \A k \in 1..attempt : ~(k > attempt)
      BY <1>1
    <2>2. attempt \in 1..attempt
      BY <1>1
    <2>3. Chosen(c, option, old) = c[option]
      BY <1>3 DEF Chosen
    <2>4. QED
      BY <1>2, <1>3, <1>k, <2>1, <2>2, <2>3 DEF Told
  <1>4. CASE ~Counts(option, c[option])
    <2>1. Chosen(c, option, old) = old
      BY <1>4 DEF Chosen
    <2>2. CASE old = Environ[option]
      BY <1>2, <1>4, <1>k, <2>1, <2>2 DEF Told
    <2>3. CASE old # Environ[option]
      <3>1. PICK a \in 1..(attempt - 1) :
              /\ Gave(command, a, option, c.cls) /\ command[a][option] = old
              /\ \A k \in 1..(attempt - 1) : k > a => ~Gave(command, k, option, c.cls)
        BY <1>1, <2>3 DEF FromSomeone
      <3>2. /\ a \in 1..attempt
            /\ command'[a].cls = c.cls /\ Counts(option, command'[a][option])
            /\ command'[a][option] = old
        BY <1>1, <1>2, <3>1 DEF Gave
      <3>3. ASSUME NEW k \in 1..attempt, k > a
            PROVE  ~(command'[k].cls = c.cls /\ Counts(option, command'[k][option]))
        <4>1. CASE k = attempt
          BY <1>2, <1>4, <4>1
        <4>2. CASE k # attempt
          BY <1>1, <1>2, <3>1, <3>3, <4>2 DEF Gave
        <4>3. QED
          BY <4>1, <4>2
      <3>4. \E b \in 1..attempt :
              /\ command'[b].cls = c.cls /\ Counts(option, command'[b][option])
              /\ command'[b][option] = old
              /\ \A k \in 1..attempt :
                   k > b => ~(command'[k].cls = c.cls /\ Counts(option, command'[k][option]))
        BY <3>2, <3>3, Zenon
      <3>5. Told(option, old)'
        <4>1. attempt' = attempt /\ command'[attempt'] = c
          BY <1>2
        <4>2. QED
          BY <3>4, <4>1 DEF Told
      <3>6. QED
        BY <1>k, <2>1, <3>5
    <2>4. QED
      BY <2>2, <2>3
  <1>5. QED
    BY <1>3, <1>4

LEMMA CommandNext ==
  ASSUME ProcessInv, NEW c \in Command, StartCommand(c), TypeInv'
  PROVE  ProcessInv'
  <1>w. PICK w : w = Written(c)
    OBVIOUS
  <1>g. PICK g : g = GetSettings(c.cls)
    OBVIOUS
  <1>1. /\ status = "idle" /\ status' \in {"building", "over"} /\ attempt' = attempt
        /\ command' = Append(command, c)
        /\ cached' = [cached EXCEPT ![c.cls] = w]
        /\ UNCHANGED <<latched, masked, endpoint>>
    BY <1>w DEF StartCommand, Start, Fail, Written
  <1>2. /\ attempt \in Nat \ {0} /\ command \in Seq(Command) /\ Len(command) = attempt - 1
        /\ cached \in [SettingsClass -> Binding \cup {NotCached}]
    BY <1>1, LastTyped DEF ProcessInv
  <1>3. /\ command' \in Seq(Command) /\ Len(command') = attempt
        /\ command'[attempt] = c
        /\ \A a \in 1..(attempt - 1) : command'[a] = command[a]
    BY <1>1, <1>2, AppendProperties
  <1>4. /\ cached' \in [SettingsClass -> Binding \cup {NotCached}]
        /\ cached'[c.cls] = w /\ w # NotCached
        /\ \A d \in SettingsClass : d # c.cls => cached'[d] = cached[d]
    BY <1>w, <1>1, <1>2, WrittenTyped, CommandTyped
  <1>5. ProcessTypeOK'
    BY <1>1, <1>3, <1>4 DEF ProcessInv, ProcessTypeOK, Binding
  <1>6. /\ FromSomeone(command, "host", c.cls, g.host)
        /\ FromSomeone(command, "port", c.cls, g.port)
    BY <1>g, SettingsToldTyped, CommandTyped
  <1>7. w.host = Chosen(c, "host", g.host) /\ w.port = Chosen(c, "port", g.port)
    BY <1>w, <1>g DEF Written
  <1>t. /\ Told("host", w.host)' /\ FromSomeone(command', "host", c.cls, w.host)
        /\ Told("port", w.port)' /\ FromSomeone(command', "port", c.cls, w.port)
    BY <1>1, <1>6, <1>7, ChosenTold
  <1>8. CachedTold'
    <2>1. ASSUME NEW d \in SettingsClass, cached'[d] # NotCached, d # c.cls
          PROVE  /\ FromSomeone(command', "host", d, cached'[d].host)
                 /\ FromSomeone(command', "port", d, cached'[d].port)
      <3>1. /\ FromSomeone(command, "host", d, cached'[d].host)
            /\ FromSomeone(command, "port", d, cached'[d].port)
        BY <1>4, <2>1 DEF ProcessInv, CachedTold
      <3>2. QED
        BY <1>1, <1>2, <2>1, <3>1, FromSomeoneKept
    <2>2. QED
      BY <1>4, <1>t, <2>1 DEF CachedTold
  <1>9. BuildsAsTold'
    BY <1>1, <1>3, <1>4, <1>t DEF BuildsAsTold
  <1>10. ListensAsTold'
    BY <1>1 DEF ListensAsTold
  <1>11. QED
    BY <1>5, <1>8, <1>9, <1>10 DEF ProcessInv

-----------------------------------------------------------------------------
(* The other steps.                                                        *)

\* Settings are read anew between builds only, from the environment.
LEMMA ReloadNext ==
  ASSUME ProcessInv, NEW c \in SettingsClass, ReloadSettings(c), TypeInv'
  PROVE  ProcessInv'
  <1>1. /\ status \in {"idle", "over"}
        /\ cached' = [cached EXCEPT ![c] = FromEnviron]
        /\ UNCHANGED <<command, status, attempt, latched, masked, endpoint>>
    BY DEF ReloadSettings, vars
  <1>2. cached \in [SettingsClass -> Binding \cup {NotCached}]
    BY LastTyped DEF ProcessInv
  <1>3. ProcessTypeOK'
    BY <1>1, <1>2, EnvironTyped DEF ProcessInv, ProcessTypeOK, Binding
  <1>4. CachedTold'
    BY <1>1, <1>2 DEF ProcessInv, CachedTold, FromSomeone, FromEnviron
  <1>5. BuildsAsTold' /\ ListensAsTold'
    BY <1>1 DEF BuildsAsTold, ListensAsTold
  <1>6. QED
    BY <1>3, <1>4, <1>5 DEF ProcessInv

\* Setting logging up does not touch what is built.
LEMMA LoggingNext ==
  ASSUME ProcessInv, TypeInv', UNCHANGED <<command, attempt, cached, endpoint>>,
         NEW f \in SUBSET Fragment, SetUpLogging(f),
         \/ UNCHANGED status
         \/ status \in {"building"} /\ status' \in {"building", "over"}
  PROVE  ProcessInv'
  <1>1. latched' = TRUE /\ masked' \subseteq Fragment
    BY DEF SetUpLogging, ProcessInv, ProcessTypeOK
  <1>2. ProcessTypeOK'
    BY <1>1 DEF ProcessInv, ProcessTypeOK
  <1>3. CachedTold'
    BY DEF ProcessInv, CachedTold
  <1>4. BuildsAsTold'
    BY DEF ProcessInv, BuildsAsTold, Told
  <1>5. ListensAsTold'
    BY DEF ProcessInv, ListensAsTold, Told
  <1>6. QED
    BY <1>2, <1>3, <1>4, <1>5 DEF ProcessInv

\* Nor does a test that resets it.
LEMMA ResetNext ==
  ASSUME ProcessInv, TypeInv', ResetLogging
  PROVE  ProcessInv'
  <1>1. /\ latched' = FALSE
        /\ UNCHANGED <<status, attempt, command, cached, masked, endpoint>>
    BY DEF ResetLogging, vars
  <1>2. ProcessTypeOK'
    BY <1>1 DEF ProcessInv, ProcessTypeOK
  <1>3. CachedTold' /\ BuildsAsTold' /\ ListensAsTold'
    BY <1>1 DEF ProcessInv, CachedTold, BuildsAsTold, ListensAsTold, Told
  <1>4. QED
    BY <1>2, <1>3 DEF ProcessInv

\* Serving takes host and port from the settings of the build's own class.
LEMMA ServeNext ==
  ASSUME ProcessInv, ServeCommand, TypeInv'
  PROVE  ProcessInv'
  <1> DEFINE last == command[attempt]
             bind == cached[last.cls]
  <1>1. /\ status = "built" /\ status' \in {"serving", "over"}
        /\ UNCHANGED <<command, attempt, cached, latched, masked>>
    BY DEF ServeCommand, Serve, Fail
  <1>2. last \in Command /\ bind \in Binding
    BY <1>1, LastTyped, CommandTyped DEF ProcessInv, BuildsAsTold
  <1>3. bind # NotCached /\ Told("host", bind.host) /\ Told("port", bind.port)
    BY <1>1 DEF ProcessInv, BuildsAsTold
  <1>c. PICK chosen : chosen = Chosen(last, "transport", Environ.transport)
    OBVIOUS
  <1>h. PICK h : h = Bound(bind.host)
    OBVIOUS
  <1>4. chosen \in Transport
    BY <1>c, <1>2, CommandTyped, EnvironTyped DEF Chosen, Counts, Endpoint
  <1>5. status' = "serving" =>
          endpoint' = [host |-> h, port |-> bind.port, transport |-> chosen]
    BY <1>h, <1>c DEF ServeCommand
  <1>6. status' # "serving" => UNCHANGED endpoint
    BY DEF ServeCommand
  <1>7. endpoint' \in Endpoint
    <2>1. CASE status' = "serving"
      <3>1. h \in Host /\ bind.port \in Port /\ chosen \in Transport
        BY <1>h, <1>2, <1>4, CommandAssumption DEF Binding, Bound
      <3>2. QED
        BY <1>5, <2>1, <3>1 DEF Endpoint
    <2>2. CASE status' # "serving"
      BY <1>6, <2>2 DEF ProcessInv, ProcessTypeOK
    <2>3. QED
      BY <2>1, <2>2
  <1>8. ProcessTypeOK'
    BY <1>1, <1>7 DEF ProcessInv, ProcessTypeOK
  <1>9. CachedTold'
    BY <1>1 DEF ProcessInv, CachedTold
  <1>10. BuildsAsTold'
    BY <1>1 DEF ProcessInv, BuildsAsTold, Told
  <1>11. ListensAsTold'
    <2> SUFFICES ASSUME status' = "serving" PROVE ListensAsTold'
      BY DEF ListensAsTold
    <2>b. PICK b \in Host : b = bind.host
      BY <1>2 DEF Binding
    <2>1. /\ endpoint'.host = Bound(b) /\ endpoint'.port = bind.port
          /\ endpoint'.transport = Chosen(command[attempt], "transport", Environ.transport)
      BY <1>2, <1>5, <1>c, <1>h, <2>b DEF Binding
    <2>2. Told("host", b)'
      BY <1>1, <1>3, <2>b DEF Told
    <2>3. Told("port", endpoint.port)'
      BY <1>1, <1>3, <2>1 DEF Told
    <2>4. endpoint'.host = Bound(b)
      BY <2>1
    <2>5. \E host \in Host : endpoint'.host = Bound(host) /\ Told("host", host)'
      BY <2>2, <2>4, Zenon
    <2>6. QED
      BY <1>1, <2>1, <2>3, <2>5 DEF ListensAsTold
  <1>12. QED
    BY <1>8, <1>9, <1>10, <1>11 DEF ProcessInv

\* The rest of a build, and of a server's life.
LEMMA GatewayStepNext ==
  ASSUME ProcessInv, GatewayStep, TypeInv'
  PROVE  ProcessInv'
  <1>1. /\ UNCHANGED <<command, cached, latched, masked, endpoint>>
        /\ \/ /\ UNCHANGED attempt
              /\ status \in {"building", "serving"} /\ status' \in {"building", "built", "over"}
           \/ status = "over" /\ status' = "idle" /\ attempt' = attempt + 1
    BY StatusMoves DEF ProcessInv, ownVars
  <1>2. Len(command') = IF status' = "idle" THEN attempt' - 1 ELSE attempt'
    BY <1>1, LastTyped DEF ProcessInv
  <1>3. ProcessTypeOK'
    BY <1>1, <1>2 DEF ProcessInv, ProcessTypeOK
  <1>4. CachedTold'
    BY <1>1 DEF ProcessInv, CachedTold
  <1>5. BuildsAsTold'
    BY <1>1 DEF ProcessInv, BuildsAsTold, Told
  <1>6. ListensAsTold'
    BY <1>1 DEF ListensAsTold
  <1>7. QED
    BY <1>3, <1>4, <1>5, <1>6 DEF ProcessInv

-----------------------------------------------------------------------------
(* The theorems.                                                           *)

LEMMA ProcessInvNext == ProcessInv /\ [ProcessNext]_processVars => ProcessInv'
  <1> SUFFICES ASSUME ProcessInv, [ProcessNext]_processVars PROVE ProcessInv'
    OBVIOUS
  <1>t. TypeInv'
    BY ProcessStepsGateway, TypeNext DEF ProcessInv
  <1>1. ASSUME NEW c \in SettingsClass, ReloadSettings(c) PROVE ProcessInv'
    BY <1>t, <1>1, ReloadNext
  <1>2. ASSUME NEW f \in SUBSET Fragment, SetUpFirst(f) PROVE ProcessInv'
    <2>1. SetUpLogging(f) /\ UNCHANGED <<command, attempt, cached, endpoint, status>>
      BY <1>2 DEF SetUpFirst, vars
    <2>2. QED
      BY <1>t, <2>1, LoggingNext
  <1>3. ASSUME NEW c \in Command, StartCommand(c) PROVE ProcessInv'
    BY <1>t, <1>3, CommandNext
  <1>4. CASE SetUpAndBuildAuth
    <2>1. /\ status = "building" /\ status' \in {"building", "over"}
          /\ UNCHANGED <<command, attempt, cached, endpoint>>
          /\ SetUpLogging(command[attempt].fragments)
      BY <1>4 DEF SetUpAndBuildAuth, BuildAuth, Building, Proceed, Fail
    <2>2. command[attempt].fragments \in SUBSET Fragment
      BY <2>1, LastTyped, CommandTyped DEF ProcessInv
    <2>3. PICK f \in SUBSET Fragment : f = command[attempt].fragments
      BY <2>2
    <2>4. SetUpLogging(f)
      BY <2>1, <2>3 DEF SetUpLogging
    <2>5. QED
      BY <1>t, <2>1, <2>4, LoggingNext
  <1>5. CASE ServeCommand
    BY <1>t, <1>5, ServeNext
  <1>6. CASE GatewayStep
    BY <1>t, <1>6, GatewayStepNext
  <1>7. CASE UNCHANGED processVars
    <2>1. UNCHANGED <<status, attempt, command, cached, latched, masked, endpoint>>
      BY <1>7 DEF processVars, ownVars, vars
    <2>2. ProcessTypeOK'
      BY <2>1 DEF ProcessInv, ProcessTypeOK
    <2>3. CachedTold' /\ BuildsAsTold' /\ ListensAsTold'
      BY <2>1 DEF ProcessInv, CachedTold, BuildsAsTold, ListensAsTold, Told
    <2>4. QED
      BY <1>t, <2>2, <2>3 DEF ProcessInv
  <1>8. CASE ResetLogging
    BY <1>t, <1>8, ResetNext
  <1>9. QED
    BY <1>1, <1>2, <1>3, <1>4, <1>5, <1>6, <1>7, <1>8 DEF ProcessNext

LEMMA ProcessInvAlways == ProcessSpec => []ProcessInv
  <1>1. QED
    BY ProcessInvInit, ProcessInvNext, PTL DEF ProcessSpec

\* The process keeps its types: a build that has begun has its command, and its logs are
\* redacted only for what somebody asked (cli.py:50-75, settings/factory.py:15-26).
THEOREM ProcessTypeCorrect == ProcessSpec => []ProcessTypeOK
  <1>1. ProcessInv => ProcessTypeOK
    BY DEF ProcessInv
  <1>2. QED
    BY <1>1, ProcessInvAlways, PTL

\* Whatever was built and served before in the process, a server listens where its own
\* command says, or where that says nothing, where the latest command of its settings class
\* to say something or the environment does (cli.py:68-73, server/runner.py:12-31).
THEOREM ServerListensAsTold == ProcessSpec => []ListensAsTold
  <1>1. ProcessInv => ListensAsTold
    BY DEF ProcessInv
  <1>2. QED
    BY <1>1, ProcessInvAlways, PTL

\* The process is Gateway with more to say about where and for whom: what is proved of
\* Gateway's builds holds of the commands' (cli.py:74, app.py:37-159).
THEOREM ProcessImplementsGateway == ProcessSpec => Spec
  <1>1. ProcessInit => Init
    BY DEF ProcessInit
  <1>2. QED
    BY <1>1, ProcessStepsGateway, PTL DEF ProcessSpec, Spec

\* No later build drops what the logs are redacted for, and nothing else does until a test
\* has reset the logging (logging_setup.py:86-111).
THEOREM RedactionIsKept == ProcessSpec => RedactionNeverShrinks
  <1>1. ProcessInv /\ [ProcessNext]_processVars
          => [latched => masked \subseteq masked']_processVars
    <2> SUFFICES ASSUME ProcessInv, [ProcessNext]_processVars, latched
                 PROVE  masked \subseteq masked'
      BY DEF ProcessInv
    <2>1. ASSUME NEW f, SetUpLogging(f) PROVE masked \subseteq masked'
      BY <2>1 DEF SetUpLogging
    <2>2. UNCHANGED masked \/ \E f : SetUpLogging(f)
      BY StatusMoves DEF ProcessInv, ProcessNext, ReloadSettings, ResetLogging, SetUpFirst,
        StartCommand, SetUpAndBuildAuth, ServeCommand, GatewayStep, processVars, ownVars
    <2>3. QED
      BY <2>1, <2>2
  <1>2. QED
    BY <1>1, ProcessInvAlways, PTL DEF ProcessSpec, RedactionNeverShrinks
=============================================================================
