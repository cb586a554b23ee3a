---------------------------- MODULE CaptureProofs ----------------------------
(***************************************************************************)
(* Proofs about the doctor's listening in Snapshot, for one diagnosis at a    *)
(* time: two that overlap do leave the logger changed. Any number of threads  *)
(* may discover plugins meanwhile, each logging to the same logger.           *)
(***************************************************************************)
EXTENDS RegistryProofs

\* The diagnosis d has the logger to itself. While it listens, every skip is
\* heard, whoever is the first to meet it: no message means nothing is skipped
\* so far, and a message that something is.
Listening(d) ==
  /\ asked[d] = "default" /\ messages[d] \in Nat
  /\ pc[d] \in {"capture", "load", "accept", "release", "done"}
  /\ pc[d] \in {"capture", "done"} => level = 0 /\ propagate = TRUE /\ handlers = {}
  /\ pc[d] \in {"load", "accept", "release"} =>
       /\ saved[d] = [level |-> 0, propagate |-> TRUE]
       /\ handlers = {d} /\ EffectiveLevel <= WARNING
  /\ messages[d] # 0 => Winners # DOMAIN points
  /\ pc[d] # "done" /\ outcome[d] # "exit" /\ messages[d] = 0 =>
       DOMAIN points \subseteq todo[d] \cup Waiting(d) \cup Kept(d)
  /\ outcome[d] \in {"ok", "warn"} =>
       pc[d] = "done" /\ (outcome[d] = "ok" <=> Winners = DOMAIN points)

LoggerShape ==
  /\ root \in Nat /\ level \in Nat
  /\ saved = [t \in Doctors |-> saved[t]] /\ messages = [t \in Doctors |-> messages[t]]
  /\ Doctors = {} => level = 0 /\ propagate = TRUE /\ handlers = {}

CInv == Inv /\ LoggerShape /\ \A d \in Doctors : Listening(d)

-----------------------------------------------------------------------------
(* Skips. *)

LEMMA MembersAppend ==
  ASSUME NEW D, NEW s \in Seq(D), NEW i \in D
  PROVE  Members(s) \cup {i} \subseteq Members(Append(s, i))
<1> DEFINE a == Append(s, i)
<1>1. /\ Len(s) \in Nat /\ DOMAIN s = 1..Len(s) /\ DOMAIN a = 1..(Len(s) + 1)
      /\ \A k \in 1..Len(s) : a[k] = s[k]
      /\ a[Len(s) + 1] = i
  OBVIOUS
<1> HIDE DEF a
<1>2. \A k \in DOMAIN s : k \in DOMAIN a /\ a[k] = s[k]
  BY <1>1
<1>3. Len(s) + 1 \in DOMAIN a
  BY <1>1
<1>4. Members(s) \cup {i} \subseteq Members(a)
  BY <1>1, <1>2, <1>3 DEF Members
<1> QED
  BY <1>4 DEF a

LEMMA MembersTail ==
  ASSUME NEW D, NEW s \in Seq(D), s # << >>
  PROVE  Members(s) \subseteq Members(Tail(s)) \cup {Head(s)}
<1> DEFINE b == Tail(s)
<1>1. /\ Len(s) \in Nat \ {0} /\ DOMAIN s = 1..Len(s) /\ DOMAIN b = 1..(Len(s) - 1)
      /\ \A k \in 1..(Len(s) - 1) : b[k] = s[k + 1]
      /\ Head(s) = s[1]
  OBVIOUS
<1> HIDE DEF b
<1>2. ASSUME NEW k \in DOMAIN s, k # 1 PROVE s[k] \in Members(b)
  <2>1. k - 1 \in 1..(Len(s) - 1) /\ (k - 1) + 1 = k
    BY <1>1, <1>2
  <2> QED
    BY <1>1, <2>1 DEF Members
<1>3. Members(s) \subseteq Members(b) \cup {Head(s)}
  BY <1>1, <1>2 DEF Members
<1> QED
  BY <1>3 DEF b

\* What is logged as skipped is no winner: it does not load ...
LEMMA UnsoundLoses == ASSUME NEW i \in DOMAIN points, ~Loads(i) PROVE Winners # DOMAIN points
  BY DEF Winners, Loads, Sound

\* ... or the section of the next that waits is taken, by a built-in collector
\* or by one that came before.
LEMMA TakenLoses ==
  ASSUME Inv, NEW t \in Threads, Accept(t), Taken(t, points[Head(loaded[t])].section)
  PROVE  Winners # DOMAIN points
<1> DEFINE i == Head(loaded[t])
<1>1. /\ pc[t] = "accept" /\ loaded[t] # << >> /\ loaded[t] \in Seq(DOMAIN points)
      /\ points \in Seq(EntryPoint)
  BY DEF Accept, Inv, Shape
<1>2. i \in DOMAIN points /\ i \in Waiting(t)
  <2>1. 1 \in DOMAIN loaded[t] /\ i = loaded[t][1] /\ i \in DOMAIN points
    BY <1>1
  <2> QED
    BY <2>1 DEF Waiting, Members
<1>3. /\ Kept(t) = Settled(t) \cap Winners
      /\ \A k \in Settled(t) : \A j \in Waiting(t) : Before(k, j)
      /\ Waiting(t) \subseteq {k \in DOMAIN points : Sound(k)}
  BY <1>1 DEF Inv, OrderInv, RegistryInv
<1> HIDE DEF i
<1>4. CASE points[i].section \in BuiltinNames
  BY <1>2, <1>4 DEF Winners
<1>5. CASE points[i].section \in Sections(t)
  <2>1. PICK j \in Kept(t) : points[i].section = points[j].section
    BY <1>5 DEF Sections, Kept, Members
  <2>2. j \in Settled(t) /\ j \in DOMAIN points /\ Sound(j)
    BY <1>3, <2>1 DEF Settled
  <2>3. Before(j, i)
    BY <1>2, <1>3, <2>2
  <2>4. j # i /\ ~Before(i, j)
    BY <1>1, <1>2, <2>2, <2>3, BeforeIsOrder
  <2> QED
    BY <1>2, <2>1, <2>2, <2>4 DEF Winners
<1> QED
  BY <1>4, <1>5 DEF Taken, i

\* Every record of the logger is of a skip, and is heard by who listens.
LEMMA Heard ==
  ASSUME LoggerShape, NEW d \in Doctors, Listening(d), NEW severity \in {WARNING, ERROR},
         Log(severity), UNCHANGED points, Winners # DOMAIN points
  PROVE  /\ messages'[d] \in Nat /\ (messages'[d] # 0 => Winners' # DOMAIN points')
         /\ messages'[d] = 0 => messages[d] = 0
         /\ pc[d] \in {"load", "accept", "release"} => messages'[d] # 0
<1>1. Winners' = Winners
  BY DEF Winners, Sound, Before
<1>2. messages'[d] = messages[d] + IF d \in handlers /\ EffectiveLevel <= severity THEN 1 ELSE 0
  BY DEF Log
<1>3. messages[d] \in Nat
  BY DEF Listening
<1>4. pc[d] \in {"load", "accept", "release"} => d \in handlers /\ EffectiveLevel <= severity
  <2>1. EffectiveLevel \in Nat
    BY DEF EffectiveLevel, LoggerShape
  <2> QED
    BY <2>1 DEF Listening, WARNING, ERROR
<1> QED
  BY <1>1, <1>2, <1>3, <1>4

-----------------------------------------------------------------------------
(* Steps. *)

Quiet(d) ==
  /\ UNCHANGED <<points, root, asked, level, propagate, handlers, saved>>
  /\ \/ UNCHANGED messages
     \/ \E severity \in {WARNING, ERROR} : Log(severity) /\ Winners # DOMAIN points

\* Another thread does not disturb a diagnosis.
LEMMA OtherThread ==
  ASSUME LoggerShape, NEW d \in Doctors, Listening(d), Quiet(d),
         UNCHANGED <<pc[d], outcome[d], todo[d], loaded[d], accepted[d]>>
  PROVE  Listening(d)'
<1>1. Winners' = Winners /\ Waiting(d)' = Waiting(d) /\ Kept(d)' = Kept(d)
  BY DEF Quiet, Winners, Sound, Before, Waiting, Kept, Members
<1>2. EffectiveLevel' = EffectiveLevel
  BY DEF Quiet, EffectiveLevel
<1>3. /\ messages'[d] \in Nat /\ (messages'[d] # 0 => Winners' # DOMAIN points')
      /\ messages'[d] = 0 => messages[d] = 0
  <2>1. CASE UNCHANGED messages
    BY <1>1, <2>1 DEF Quiet, Listening
  <2>2. CASE ~UNCHANGED messages
    BY <2>2, Heard DEF Quiet
  <2> QED
    BY <2>1, <2>2
<1>4. UNCHANGED <<points, asked, level, propagate, handlers, saved>>
  BY DEF Quiet
<1>5. /\ pc'[d] \in {"capture", "load", "accept", "release", "done"} /\ asked'[d] = "default"
      /\ pc'[d] \in {"capture", "done"} => level' = 0 /\ propagate' = TRUE /\ handlers' = {}
  BY <1>4 DEF Listening
<1>6. pc'[d] \in {"load", "accept", "release"} =>
        /\ saved'[d] = [level |-> 0, propagate |-> TRUE]
        /\ handlers' = {d} /\ EffectiveLevel' <= WARNING
  BY <1>2, <1>4 DEF Listening
<1>7. pc'[d] # "done" /\ outcome'[d] # "exit" /\ messages'[d] = 0 =>
        DOMAIN points' \subseteq todo'[d] \cup Waiting(d)' \cup Kept(d)'
  BY <1>1, <1>3, <1>4 DEF Listening
<1>8. outcome'[d] \in {"ok", "warn"} =>
        pc'[d] = "done" /\ (outcome'[d] = "ok" <=> Winners' = DOMAIN points')
  BY <1>1, <1>4 DEF Listening
<1> QED
  BY <1>3, <1>5, <1>6, <1>7, <1>8 DEF Listening

\* Loading and accepting are quiet: what they log is a skip.
LEMMA DiscoverIsQuiet ==
  ASSUME Inv, NEW t \in Threads, Discover(t), NEW d
  PROVE  Quiet(d)
<1>1. CASE Load(t)
  <2>1. PICK i \in todo[t] : (~Loads(i) /\ Log(ERROR)) \/ UNCHANGED messages
    BY <1>1 DEF Load
  <2>2. i \in DOMAIN points
    BY DEF Inv, Shape
  <2>3. UNCHANGED messages \/ (Log(ERROR) /\ Winners # DOMAIN points)
    BY <2>1, <2>2, UnsoundLoses
  <2> QED
    BY <1>1, <2>3 DEF Load, Quiet
<1>2. CASE Accept(t)
  <2>1. UNCHANGED messages \/ (Log(WARNING) /\ Taken(t, points[Head(loaded[t])].section))
    BY <1>2 DEF Accept
  <2>2. UNCHANGED messages \/ (Log(WARNING) /\ Winners # DOMAIN points)
    BY <1>2, <2>1, TakenLoses
  <2> QED
    BY <1>2, <2>2 DEF Accept, Quiet
<1>3. CASE LoadExits(t) \/ LoadedAll(t) \/ Choose(t)
  BY <1>3 DEF LoadExits, LoadedAll, Choose, loggerVars, Quiet
<1> QED
  BY <1>1, <1>2, <1>3 DEF Discover

\* The diagnosis's own discovery.
LEMMA OwnDiscovery ==
  ASSUME Inv, LoggerShape, NEW d \in Doctors, d \in Threads, Listening(d), Discover(d)
  PROVE  Listening(d)'
<1>1. Quiet(d) /\ pc[d] \in {"load", "accept"} /\ outcome[d] # "exit" /\ asked[d] = "default"
  <2>1. pc[d] \in {"load", "accept"}
    BY DEF Discover, Load, LoadExits, LoadedAll, Accept, Choose
  <2> QED
    BY <2>1, DiscoverIsQuiet DEF Inv, OrderInv, Listening
<1>2. /\ Winners' = Winners /\ EffectiveLevel' = EffectiveLevel
      /\ UNCHANGED <<points, asked, level, propagate, handlers, saved>>
  BY <1>1 DEF Quiet, Winners, Sound, Before, EffectiveLevel
<1>3. /\ messages'[d] \in Nat /\ (messages'[d] # 0 => Winners' # DOMAIN points')
      /\ messages'[d] = 0 => messages[d] = 0
      /\ ~UNCHANGED messages => messages'[d] # 0
  <2>1. CASE UNCHANGED messages
    BY <1>2, <2>1 DEF Listening
  <2>2. CASE ~UNCHANGED messages
    BY <1>1, <2>2, Heard DEF Quiet
  <2> QED
    BY <2>1, <2>2
<1>4. /\ saved[d] = [level |-> 0, propagate |-> TRUE] /\ handlers = {d} /\ EffectiveLevel <= WARNING
      /\ messages[d] = 0 => DOMAIN points \subseteq todo[d] \cup Waiting(d) \cup Kept(d)
      /\ outcome[d] \notin {"ok", "warn"}
  BY <1>1 DEF Listening
<1>5. outcome'[d] = "exit" \/ outcome'[d] = outcome[d]
  BY DEF Discover, Load, LoadExits, LoadedAll, Accept, Choose, Inv, Shape
<1>6. pc'[d] \in {"load", "accept", "release"}
  <2>1. pc \in [Threads -> Labels]
    BY DEF Inv, Shape
  <2> QED
    BY <1>1, <2>1 DEF Discover, Load, LoadExits, LoadedAll, Accept, Choose, Goto
<1>7. ASSUME messages'[d] = 0
      PROVE  DOMAIN points' \subseteq todo'[d] \cup Waiting(d)' \cup Kept(d)'
  <2>1. UNCHANGED messages /\ DOMAIN points \subseteq todo[d] \cup Waiting(d) \cup Kept(d)
    BY <1>3, <1>4, <1>7
  <2>2. CASE LoadExits(d) \/ LoadedAll(d) \/ Choose(d)
    <3>1. UNCHANGED <<todo, loaded, accepted>>
      BY <2>2 DEF LoadExits, LoadedAll, Choose, registryVars
    <3> QED
      BY <1>2, <2>1, <3>1 DEF Waiting, Kept, Members
  <2>3. CASE Load(d)
    <3>1. PICK i \in todo[d] :
            /\ todo' = [todo EXCEPT ![d] = @ \ {i}]
            /\ IF Loads(i) THEN loaded' = [loaded EXCEPT ![d] = Append(@, i)] ELSE Log(ERROR)
      BY <2>3 DEF Load
    <3>2. Loads(i)
      <4>1. ~Log(ERROR)
        <5>1. ASSUME Log(ERROR) PROVE messages'[d] = messages[d] + 1
          <6>1. EffectiveLevel \in Nat /\ d \in handlers
            BY <1>4 DEF EffectiveLevel, LoggerShape
          <6> QED
            BY <1>4, <5>1, <6>1 DEF Log, WARNING, ERROR
        <5>2. messages[d] \in Nat
          BY DEF Listening
        <5> QED
          BY <1>7, <5>1, <5>2
      <4> QED
        BY <3>1, <4>1
    <3>3. /\ loaded'[d] = Append(loaded[d], i) /\ todo'[d] = todo[d] \ {i} /\ accepted' = accepted
          /\ loaded[d] \in Seq(DOMAIN points) /\ i \in DOMAIN points
      BY <2>3, <3>1, <3>2 DEF Inv, Shape, Load
    <3>4. Members(loaded[d]) \cup {i} \subseteq Members(Append(loaded[d], i))
      BY <3>3, MembersAppend
    <3>5. Waiting(d) \cup {i} \subseteq Waiting(d)' /\ Kept(d)' = Kept(d)
      BY <3>3, <3>4 DEF Waiting, Kept, Members
    <3> QED
      BY <1>2, <2>1, <3>3, <3>5
  <2>4. CASE Accept(d)
    <3>1. /\ loaded[d] # << >> /\ loaded' = [loaded EXCEPT ![d] = Tail(@)] /\ todo' = todo
          /\ IF Taken(d, points[Head(loaded[d])].section) THEN Log(WARNING)
             ELSE accepted' = [accepted EXCEPT ![d] = Append(@, Head(loaded[d]))]
      BY <2>4 DEF Accept
    <3> DEFINE i == Head(loaded[d])
    <3>2. ~Log(WARNING)
      <4>1. ASSUME Log(WARNING) PROVE messages'[d] = messages[d] + 1
        BY <1>4, <4>1 DEF Log
      <4>2. messages[d] \in Nat
        BY DEF Listening
      <4> QED
        BY <1>7, <4>1, <4>2
    <3>3. /\ loaded'[d] = Tail(loaded[d]) /\ accepted'[d] = Append(accepted[d], i)
          /\ loaded[d] \in Seq(DOMAIN points) /\ accepted[d] \in Seq(DOMAIN points)
      BY <3>1, <3>2 DEF Inv, Shape
    <3>4. i \in DOMAIN points
      BY <3>1, <3>3
    <3>5. /\ Members(loaded[d]) \subseteq Members(Tail(loaded[d])) \cup {i}
          /\ Members(accepted[d]) \cup {i} \subseteq Members(Append(accepted[d], i))
      BY <3>1, <3>3, <3>4, MembersAppend, MembersTail
    <3> HIDE DEF i
    <3>6. Waiting(d) \subseteq Waiting(d)' \cup {i} /\ Kept(d) \cup {i} \subseteq Kept(d)'
      BY <3>3, <3>5 DEF Waiting, Kept, Members
    <3> QED
      BY <1>2, <2>1, <3>1, <3>6
  <2> QED
    BY <2>2, <2>3, <2>4 DEF Discover
<1>8. /\ saved'[d] = [level |-> 0, propagate |-> TRUE] /\ handlers' = {d} /\ EffectiveLevel' <= WARNING
      /\ asked'[d] = "default" /\ outcome'[d] \notin {"ok", "warn"}
  BY <1>1, <1>2, <1>4, <1>5
<1> QED
  BY <1>3, <1>6, <1>7, <1>8 DEF Listening

\* The diagnosis begins to listen, and ends.
LEMMA OwnCapture ==
  ASSUME Inv, LoggerShape, NEW d \in Doctors, d \in Threads, Listening(d), BeginCapture(d) \/ EndCapture(d)
  PROVE  Listening(d)' /\ LoggerShape'
<1>1. pc \in [Threads -> Labels] /\ outcome \in [Threads -> Results]
  BY DEF Inv, Shape
<1>2. CASE BeginCapture(d)
  <2>1. /\ pc'[d] = "load" /\ outcome[d] \notin {"ok", "warn"} /\ messages[d] \in Nat
        /\ UNCHANGED <<points, root, asked, outcome, messages, todo, loaded, accepted>>
        /\ level = 0 /\ propagate = TRUE /\ handlers = {} /\ asked[d] = "default"
    BY <1>1, <1>2 DEF BeginCapture, Goto, Listening, registryVars
  <2>2. Winners' = Winners
    BY <2>1 DEF Winners, Sound, Before
  <2>3. /\ handlers' = {d} /\ saved'[d] = [level |-> 0, propagate |-> TRUE]
        /\ saved' = [t \in Doctors |-> saved'[t]] /\ messages' = [t \in Doctors |-> messages'[t]]
    BY <1>2, <2>1 DEF BeginCapture, LoggerShape
  <2>4. level' = IF root > WARNING THEN WARNING ELSE 0
    BY <1>2, <2>1 DEF BeginCapture, RaiseLevel, EffectiveLevel
  <2>5. level' \in Nat /\ root' \in Nat /\ EffectiveLevel' <= WARNING
    BY <2>1, <2>4 DEF EffectiveLevel, LoggerShape, WARNING
  <2>6. outcome[d] # "exit"
    BY <1>2 DEF Inv, OrderInv, BeginCapture
  <2>7. DOMAIN points \subseteq todo[d] \cup Waiting(d) \cup Kept(d) \/ messages[d] # 0
    BY <1>2, <2>1, <2>6 DEF Listening, BeginCapture
  <2>8. Waiting(d)' = Waiting(d) /\ Kept(d)' = Kept(d)
    BY <2>1 DEF Waiting, Kept, Members
  <2>9. messages'[d] # 0 => Winners' # DOMAIN points'
    BY <2>1, <2>2 DEF Listening
  <2>10. Listening(d)'
    BY <2>1, <2>3, <2>5, <2>7, <2>8, <2>9 DEF Listening
  <2> QED
    BY <2>3, <2>5, <2>10 DEF LoggerShape
<1>3. CASE EndCapture(d)
  <2>1. /\ pc[d] = "release" /\ pc'[d] = "done" /\ messages[d] \in Nat /\ asked[d] = "default"
        /\ UNCHANGED <<points, root, asked, messages, saved, todo, loaded, accepted>>
        /\ saved[d] = [level |-> 0, propagate |-> TRUE] /\ handlers = {d}
    BY <1>1, <1>3 DEF EndCapture, Goto, Listening, registryVars
  <2>2. Winners' = Winners
    BY <2>1 DEF Winners, Sound, Before
  <2>3. level' = 0 /\ propagate' = TRUE /\ handlers' = {}
    BY <1>3, <2>1 DEF EndCapture, Restore
  <2>4. outcome'[d] = (IF outcome[d] = "exit" THEN "exit" ELSE IF messages[d] = 0 THEN "ok" ELSE "warn")
    BY <1>1, <1>3 DEF EndCapture
  <2>5. ASSUME outcome[d] # "exit", messages[d] = 0 PROVE Winners = DOMAIN points
    <3>1. DOMAIN points \subseteq todo[d] \cup Waiting(d) \cup Kept(d)
      BY <2>1, <2>5 DEF Listening
    <3>2. todo[d] = {} /\ loaded[d] = << >> /\ Kept(d) \subseteq Winners
      BY <2>1, <2>5 DEF Inv, RegistryInv
    <3>3. Waiting(d) = {}
      BY <3>2 DEF Waiting, Members
    <3> QED
      BY <3>1, <3>2, <3>3 DEF Winners
  <2>6. messages[d] # 0 => Winners # DOMAIN points
    BY DEF Listening
  <2>7. outcome'[d] \in {"ok", "warn"} => (outcome'[d] = "ok" <=> Winners' = DOMAIN points')
    BY <2>1, <2>2, <2>4, <2>5, <2>6
  <2>8. messages'[d] \in Nat /\ messages'[d] # 0 => Winners' # DOMAIN points'
    BY <2>1, <2>2, <2>6
  <2>9. Listening(d)'
    BY <2>1, <2>3, <2>7, <2>8 DEF Listening
  <2>10. LoggerShape'
    BY <2>1, <2>3 DEF LoggerShape
  <2> QED
    BY <2>9, <2>10
<1> QED
  BY <1>2, <1>3

LEMMA InitCInv == (\A d, e \in Doctors : d = e) => (Init => CInv)
<1> SUFFICES ASSUME Init PROVE CInv
  OBVIOUS
<1>1. Inv
  BY InitInv
<1>2. LoggerShape
  BY ThreadAssumption DEF Init, LoggerShape
<1>3. ASSUME NEW d \in Doctors PROVE Listening(d)
  <2>1. d \in Threads
    BY DEF Threads
  <2> QED
    BY <1>3, <2>1 DEF Init, Listening
<1> QED
  BY <1>1, <1>2, <1>3 DEF CInv

\* One step of any thread, with one diagnosis.
LEMMA NextCInv ==
  ASSUME \A d, e \in Doctors : d = e, CInv, [Next]_vars
  PROVE  CInv'
<1>1. Inv'
  BY NextInv DEF CInv
<1>2. \A d \in Doctors : d \in Threads /\ d \notin Snappers
  BY ThreadAssumption DEF Threads
<1>3. ASSUME NEW t \in Threads, Discover(t) PROVE LoggerShape' /\ \A d \in Doctors : Listening(d)'
  <2>1. UNCHANGED <<root, level, propagate, handlers, saved>>
    BY <1>3 DEF Discover, Load, LoadExits, LoadedAll, Accept, Choose, loggerVars
  <2>2. messages' = [d \in Doctors |-> messages'[d]]
    BY <1>3 DEF Discover, Load, LoadExits, LoadedAll, Accept, Choose, loggerVars, Log, CInv, LoggerShape
  <2>3. LoggerShape'
    BY <2>1, <2>2 DEF CInv, LoggerShape
  <2>4. ASSUME NEW d \in Doctors PROVE Listening(d)'
    <3>1. CASE t = d
      BY <1>2, <1>3, <2>4, <3>1, OwnDiscovery DEF CInv
    <3>2. CASE t # d
      <4>1. Quiet(d)
        BY <1>3, DiscoverIsQuiet DEF CInv
      <4>2. UNCHANGED <<pc[d], outcome[d], todo[d], loaded[d], accepted[d]>>
        BY <1>2, <1>3, <3>2 DEF Discover, Load, LoadExits, LoadedAll, Accept, Choose, Goto, registryVars,
           CInv, Inv, Shape
      <4> QED
        BY <2>4, <4>1, <4>2, OtherThread DEF CInv
    <3> QED
      BY <3>1, <3>2
  <2> QED
    BY <2>3, <2>4
<1>4. ASSUME NEW t \in Doctors, BeginCapture(t) \/ EndCapture(t)
      PROVE  LoggerShape' /\ \A d \in Doctors : Listening(d)'
  BY <1>2, <1>4, OwnCapture DEF CInv
<1>5. ASSUME NEW t \in Snappers, Compose(t) \/ Drive(t) \/ Answer(t) \/ Fail(t) \/ Document(t)
      PROVE  LoggerShape' /\ \A d \in Doctors : Listening(d)'
  <2>1. /\ UNCHANGED <<points, root, asked, level, propagate, handlers, saved, messages, todo, loaded, accepted>>
        /\ \E label : pc' = [pc EXCEPT ![t] = label]
        /\ \E result : outcome' = [outcome EXCEPT ![t] = result]
    <3>1. t \in Threads /\ pc = [pc EXCEPT ![t] = pc[t]] /\ outcome = [outcome EXCEPT ![t] = outcome[t]]
      BY DEF CInv, Inv, Shape, Threads
    <3> QED
      BY <1>5, <3>1 DEF Compose, Drive, Answer, Fail, Document, Goto, End, loggerVars, registryVars
  <2>2. LoggerShape'
    BY <2>1 DEF CInv, LoggerShape
  <2>3. ASSUME NEW d \in Doctors PROVE Listening(d)'
    <3>1. UNCHANGED <<pc[d], outcome[d], todo[d], loaded[d], accepted[d]>>
      BY <1>2, <2>1, <2>3 DEF CInv, Inv, Shape
    <3> QED
      BY <2>1, <2>3, <3>1, OtherThread DEF CInv, Quiet
  <2> QED
    BY <2>2, <2>3
<1>6. CASE UNCHANGED vars
  <2>1. UNCHANGED <<points, root, asked, pc, outcome, level, propagate, handlers, saved, messages,
                    todo, loaded, accepted>>
    BY <1>6 DEF vars, loggerVars, registryVars
  <2>2. LoggerShape'
    BY <2>1 DEF CInv, LoggerShape
  <2>3. ASSUME NEW d \in Doctors PROVE Listening(d)'
    BY <2>1, <2>3, OtherThread DEF CInv, Quiet
  <2> QED
    BY <1>1, <2>2, <2>3 DEF CInv
<1> QED
  BY <1>1, <1>3, <1>4, <1>5, <1>6 DEF CInv, Next

-----------------------------------------------------------------------------
(* The theorems. *)

\* After a diagnosis, also one that a plugin ended by SystemExit, the logger is
\* as the application left it, if no two diagnoses overlap.
THEOREM LoggerIsRestored == (\A d, e \in Doctors : d = e) => (Spec => []LoggerRestored)
<1> SUFFICES ASSUME \A d, e \in Doctors : d = e PROVE Spec => []LoggerRestored
  OBVIOUS
<1>1. Init => CInv
  BY InitCInv
<1>2. CInv /\ [Next]_vars => CInv'
  BY NextCInv
<1>3. CInv => LoggerRestored
  <2> SUFFICES ASSUME CInv, \A d \in Doctors : pc[d] \in {"capture", "done"}
               PROVE  level = 0 /\ propagate = TRUE /\ handlers = {}
    BY DEF LoggerRestored
  <2> QED
    BY DEF CInv, LoggerShape, Listening
<1> QED
  BY <1>1, <1>2, <1>3, PTL DEF Spec

\* All win when there is nothing to skip, and only then.
LEMMA AllWin == ASSUME points \in Seq(EntryPoint) PROVE NothingToSkip <=> Winners = DOMAIN points
<1>1. ASSUME NothingToSkip PROVE Winners = DOMAIN points
  BY <1>1 DEF NothingToSkip, Candidates, Winners
<1>2. ASSUME Winners = DOMAIN points PROVE NothingToSkip
  <2>1. DOMAIN points = Candidates
    BY <1>2 DEF Winners, Candidates
  <2>2. ASSUME NEW i \in DOMAIN points, NEW j \in DOMAIN points,
               points[i].section = points[j].section, i # j
        PROVE  FALSE
    <3>1. Before(i, j) /\ Before(j, i)
      BY <1>2, <2>2 DEF Winners
    <3> QED
      BY <3>1, BeforeIsOrder
  <2> QED
    BY <2>1, <2>2 DEF NothingToSkip
<1> QED
  BY <1>1, <1>2

\* A diagnosis warns exactly when a plugin is missing from what a snapshot
\* would run, whatever the level of the root logger and whoever else discovers
\* plugins meanwhile, if no two diagnoses overlap.
THEOREM SkipsAreTold == (\A d, e \in Doctors : d = e) => (Spec => []CheckTellsSkips)
<1> SUFFICES ASSUME \A d, e \in Doctors : d = e PROVE Spec => []CheckTellsSkips
  OBVIOUS
<1>1. Init => CInv
  BY InitCInv
<1>2. CInv /\ [Next]_vars => CInv'
  BY NextCInv
<1>3. CInv => CheckTellsSkips
  BY AllWin DEF CInv, Inv, Shape, Listening, CheckTellsSkips
<1> QED
  BY <1>1, <1>2, <1>3, PTL DEF Spec
===========================================================================
