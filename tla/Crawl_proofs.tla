---------------------------- MODULE Crawl_proofs ----------------------------
(***************************************************************************)
(* Proofs about Crawl, for every directory, however many services, folders *)
(* and layers it has, and every number of slots; and about Directory, the  *)
(* client that keeps what crawls find, for any number of tasks and crawls. *)
(***************************************************************************)
EXTENDS Crawl, Directory, FiniteSetTheorems, SequenceTheorems, TLAPS

LayerTasks == AllServices \X Layers

(* The requests of the two fan-outs that hold a slot. *)
Roots == {s \in AllServices : service[s] = "root"}
Busy == {x \in LayerTasks : layer[x] \in {"metadata", "count"}}
Asked == IF asking THEN 1 ELSE 0

(* The services are there before their layers: nothing is fanned out while *)
(* the places are asked, and a layer has a task once its service answered. *)
StageInv ==
  /\ stage = "places" =>
       \A s \in AllServices : service[s] \in {"unknown", "listed"}
  /\ \A s \in AllServices, l \in Layers :
       service[s] \in {"unknown", "listed", "queued", "root"} =>
         layer[<<s, l>>] = "none"

(* How errors come about: places before the present one, each once, and    *)
(* the services that failed, each once.                                    *)
ErrorsInv ==
  /\ IsInjective(errors)
  /\ ~engine.safe => errors = <<>>
  /\ stage = "places" =>
       \A i \in DOMAIN errors : errors[i] \in Places /\ errors[i] < at
  /\ engine.safe =>
       \A s \in AllServices : service[s] = "failed" <=> s \in ToSet(errors)

(* A service is unknown only while its place has not answered, or because  *)
(* its place failed.                                                       *)
ListingInv ==
  engine.safe =>
    \A s \in AllServices : service[s] = "unknown" =>
      /\ stage = "places" =>
           /\ s \in BaseServices => at = Base
           /\ \A j \in DOMAIN Folders :
                s \in Folders[j] /\ j < at => j \in ToSet(errors)
      /\ stage \in {"services", "returned"} =>
           \E j \in ToSet(errors) \cap DOMAIN Folders : s \in Folders[j]

IInv ==
  /\ TypeOK
  /\ CapIsGlobal
  /\ StageInv
  /\ DoneServiceIsWhole
  /\ ErrorsInv
  /\ ListingInv

-----------------------------------------------------------------------------

(* Every set of requests is finite. *)
LEMMA FiniteRequests ==
  \A R \in SUBSET AllServices, B \in SUBSET LayerTasks :
    /\ IsFiniteSet(R) /\ Cardinality(R) \in Nat
    /\ IsFiniteSet(B) /\ Cardinality(B) \in Nat
<1>1. IsFiniteSet(LayerTasks)
  BY CrawlAssumption, FS_Product DEF LayerTasks
<1>2. QED
  BY <1>1, CrawlAssumption, FS_Subset, FS_CardinalityType

(* The requests in flight, counted by level. *)
LEMMA InFlightByLevel ==
  InFlight = Cardinality(Roots) + Cardinality(Busy) + Asked
  BY DEF InFlight, Roots, Busy, Asked, LayerTasks

(* The directory's folders are numbered from 1. *)
LEMMA PlacesAreNumbered ==
  /\ Len(Folders) \in Nat
  /\ DOMAIN Folders = 1..Len(Folders)
  /\ Places = 0..Len(Folders)
  BY CrawlAssumption DEF Places, Base

(* Every service is listed by the base or by a folder. *)
LEMMA ServicesAreListed ==
  /\ \A s \in AllServices :
       s \in BaseServices \/ \E j \in DOMAIN Folders : s \in Folders[j]
  /\ \A j \in DOMAIN Folders : Folders[j] \subseteq AllServices
  /\ BaseServices \subseteq AllServices
  BY CrawlAssumption DEF AllServices, ToSet

(* An error more: what a sequence of distinct errors becomes. *)
LEMMA OneMoreError ==
  ASSUME NEW S, NEW seq \in Seq(S), NEW e \in S
  PROVE  /\ Append(seq, e) \in Seq(S)
         /\ ToSet(Append(seq, e)) = ToSet(seq) \cup {e}
         /\ IsInjective(seq) /\ e \notin ToSet(seq) =>
              IsInjective(Append(seq, e))
<1>1. /\ DOMAIN seq = 1..Len(seq) /\ Len(seq) \in Nat
      /\ DOMAIN Append(seq, e) = 1..(Len(seq) + 1)
  OBVIOUS
<1>2. /\ \A i \in 1..Len(seq) : Append(seq, e)[i] = seq[i]
      /\ Append(seq, e)[Len(seq) + 1] = e
      /\ Append(seq, e) \in Seq(S)
  BY AppendProperties
<1>3. ToSet(Append(seq, e)) = ToSet(seq) \cup {e}
  BY <1>1, <1>2 DEF ToSet
<1>4. ASSUME IsInjective(seq), e \notin ToSet(seq)
      PROVE  IsInjective(Append(seq, e))
  BY <1>1, <1>2, <1>4 DEF IsInjective, ToSet
<1>5. QED
  BY <1>2, <1>3, <1>4

(* A crawl that has not begun satisfies the inductive invariant. *)
LEMMA InitIInv == Init => IInv
<1> SUFFICES ASSUME Init PROVE IInv
  OBVIOUS
<1>1. Roots = {} /\ Busy = {}
  BY DEF Init, Roots, Busy, LayerTasks
<1>2. InFlight = 0
  BY <1>1, InFlightByLevel, FS_EmptySet DEF Init, Asked
<1>3. TypeOK
  <2>1. errors \in Seq(Places \cup AllServices)
    BY DEF Init
  <2>2. free \in 0..Slots
    BY CrawlAssumption DEF Init
  <2>3. QED
    BY <2>1, <2>2 DEF Init, TypeOK, Places, LayerStates
<1>4. CapIsGlobal
  BY <1>2, CrawlAssumption DEF Init, CapIsGlobal
<1>5. ErrorsInv
  BY DEF Init, ErrorsInv, IsInjective, ToSet
<1>6. StageInv
  BY DEF Init, StageInv
<1>7. DoneServiceIsWhole
  BY DEF Init, DoneServiceIsWhole
<1>8. ListingInv
  BY PlacesAreNumbered DEF Init, ListingInv, Base
<1>9. QED
  BY <1>3, <1>4, <1>5, <1>6, <1>7, <1>8 DEF IInv

-----------------------------------------------------------------------------
(* The semaphore *)

(* Onward takes no service into or out of a request. *)
LEMMA OnwardKeepsRoots ==
  ASSUME NEW listed, Onward(listed),
         \A s \in AllServices : service[s] \in {"unknown", "listed"}
  PROVE  Roots' = Roots
  BY DEF Onward, Roots

(* A slot is taken and given back with each request, on every path. *)
LEMMA CapStep == IInv /\ [Next]_vars => CapIsGlobal'
<1> SUFFICES ASSUME IInv, [Next]_vars PROVE CapIsGlobal'
  OBVIOUS
<1> Slots \in Nat
  BY CrawlAssumption
<1> free \in 0..Slots
  BY DEF IInv, TypeOK
<1> free \in Nat
  OBVIOUS
<1> /\ service \in [AllServices -> {"unknown", "listed", "queued", "root",
                                    "layers", "done", "failed"}]
    /\ layer \in [LayerTasks -> LayerStates]
  BY DEF IInv, TypeOK, LayerTasks
<1> /\ Cardinality(Roots) + Cardinality(Busy) + Asked + free = Slots
    /\ Asked \in {0, 1}
  BY InFlightByLevel DEF IInv, CapIsGlobal, Asked
<1> SUFFICES Cardinality(Roots') + Cardinality(Busy') + Asked' + free' = Slots
  BY InFlightByLevel DEF CapIsGlobal, InFlight, Roots, Busy, Asked, LayerTasks
<1> /\ IsFiniteSet(Roots) /\ Cardinality(Roots) \in Nat
    /\ IsFiniteSet(Busy) /\ Cardinality(Busy) \in Nat
  BY FiniteRequests DEF Roots, Busy
<1>1. CASE AskPlace
  <2>1. Roots' = Roots /\ Busy' = Busy
    BY <1>1 DEF AskPlace, Roots, Busy
  <2>2. Asked = 0 /\ Asked' = 1
    BY <1>1 DEF AskPlace, Asked
  <2>3. QED
    BY <1>1, <2>1, <2>2 DEF AskPlace, Acquire
<1>2. CASE PlaceAnswers \/ PlaceFails \/ PlaceBreaks
  <2>1. Roots' = Roots
    BY <1>2, OnwardKeepsRoots
       DEF PlaceAnswers, PlaceFails, PlaceBreaks, IInv, StageInv, Roots
  <2>2. Busy' = Busy
    BY <1>2 DEF PlaceAnswers, PlaceFails, PlaceBreaks, Busy
  <2>3. Asked = 1 /\ Asked' = 0
    BY <1>2 DEF PlaceAnswers, PlaceFails, PlaceBreaks, Asked
  <2>4. free' = free + 1
    BY <1>2 DEF PlaceAnswers, PlaceFails, PlaceBreaks, Release
  <2>5. QED
    BY <2>1, <2>2, <2>3, <2>4
<1>3. ASSUME NEW s \in AllServices, AskService(s)
      PROVE  Cardinality(Roots') + Cardinality(Busy') + Asked' + free' = Slots
  <2>1. /\ Roots' = Roots \cup {s} /\ s \notin Roots
        /\ Busy' = Busy /\ Asked' = Asked
    BY <1>3 DEF AskService, Roots, Busy, Asked
  <2>2. Cardinality(Roots') = Cardinality(Roots) + 1
    BY <2>1, FS_AddElement
  <2>3. QED
    BY <1>3, <2>1, <2>2 DEF AskService, Acquire
<1>4. ASSUME NEW s \in AllServices, ServiceAnswers(s) \/ ServiceFails(s)
      PROVE  Cardinality(Roots') + Cardinality(Busy') + Asked' + free' = Slots
  <2>1. Roots' = Roots \ {s} /\ s \in Roots /\ Asked' = Asked
    BY <1>4 DEF ServiceAnswers, ServiceFails, Report, Roots, Asked
  <2>2. Busy' = Busy
    <3>1. \A l \in Layers : layer[<<s, l>>] = "none"
      BY <1>4 DEF ServiceAnswers, ServiceFails, IInv, StageInv
    <3>2. QED
      BY <1>4, <3>1 DEF ServiceAnswers, ServiceFails, FanOut, Busy, LayerTasks
  <2>3. Cardinality(Roots') = Cardinality(Roots) - 1
    BY <2>1, FS_RemoveElement
  <2>4. QED
    BY <1>4, <2>1, <2>2, <2>3 DEF ServiceAnswers, ServiceFails, Release
<1>5. ASSUME NEW s \in AllServices, NEW l \in Layers, AskLayer(s, l)
      PROVE  Cardinality(Roots') + Cardinality(Busy') + Asked' + free' = Slots
  <2>1. Busy' = Busy \cup {<<s, l>>} /\ <<s, l>> \notin Busy
    BY <1>5 DEF AskLayer, Busy, LayerTasks
  <2>2. Roots' = Roots /\ Asked' = Asked
    BY <1>5 DEF AskLayer, Roots, Asked
  <2>3. Cardinality(Busy') = Cardinality(Busy) + 1
    BY <2>1, FS_AddElement
  <2>4. QED
    BY <1>5, <2>2, <2>3 DEF AskLayer, Acquire
<1>6. ASSUME NEW s \in AllServices, NEW l \in Layers,
             \/ LayerAnswers(s, l) \/ CountEnds(s, l)
             \/ LayerContained(s, l) \/ LayerEscapes(s, l)
      PROVE  Cardinality(Roots') + Cardinality(Busy') + Asked' + free' = Slots
  <2>1. Roots' = Roots /\ Asked' = Asked
    BY <1>6 DEF LayerAnswers, CountEnds, LayerContained, LayerEscapes, Report,
                Roots, Asked
  <2>2. \/ Busy' = Busy /\ free' = free
        \/ Busy' = Busy \ {<<s, l>>} /\ <<s, l>> \in Busy /\ free' = free + 1
    BY <1>6 DEF LayerAnswers, CountEnds, LayerContained, LayerEscapes, Release,
                Busy, LayerTasks
  <2>3. CASE Busy' = Busy /\ free' = free
    BY <2>1, <2>3
  <2>4. CASE /\ Busy' = Busy \ {<<s, l>>} /\ <<s, l>> \in Busy
             /\ free' = free + 1
    <3>1. Cardinality(Busy') = Cardinality(Busy) - 1
      BY <2>4, FS_RemoveElement
    <3>2. QED
      BY <2>1, <2>4, <3>1
  <2>5. QED
    BY <2>2, <2>3, <2>4
<1>7. ASSUME \/ Return \/ UNCHANGED vars
             \/ \E s \in AllServices : Gathered(s)
      PROVE  Cardinality(Roots') + Cardinality(Busy') + Asked' + free' = Slots
  <2>1. Roots' = Roots /\ Busy' = Busy /\ Asked' = Asked /\ free' = free
    BY <1>7 DEF Return, Gathered, Roots, Busy, Asked, vars
  <2>2. QED
    BY <2>1
<1>8. QED
  BY <1>1, <1>2, <1>3, <1>4, <1>5, <1>6, <1>7
     DEF Next, PlaceStep, ServiceStep, LayerStep, Quiet

-----------------------------------------------------------------------------
(* Types, stages and whole services *)

ServiceStates ==
  {"unknown", "listed", "queued", "root", "layers", "done", "failed"}

(* The place after the last one asked is a place. *)
LEMMA OnwardKeepsTypes ==
  ASSUME NEW listed, Onward(listed), at \in Places,
         service \in [AllServices -> ServiceStates]
  PROVE  /\ at' \in Places
         /\ stage' \in {"services", stage}
         /\ service' \in [AllServices -> ServiceStates]
<1>1. at' \in Places
  <2>1. at' = at \/ (at # Len(Folders) /\ at' = at + 1)
    BY DEF Onward
  <2>2. at \in 0..Len(Folders) /\ Len(Folders) \in Nat
    BY PlacesAreNumbered
  <2>3. at' \in 0..Len(Folders)
    BY <2>1, <2>2
  <2>4. QED
    BY <2>3, PlacesAreNumbered
<1>2. stage' \in {"services", stage}
  BY DEF Onward
<1>3. service' \in [AllServices -> ServiceStates]
  BY DEF Onward, ServiceStates
<1>4. QED
  BY <1>1, <1>2, <1>3

(* The errors name places and services. *)
LEMMA ErrorsStep ==
  IInv /\ [Next]_vars => errors' \in Seq(Places \cup AllServices)
<1> SUFFICES ASSUME IInv, [Next]_vars
             PROVE  errors' \in Seq(Places \cup AllServices)
  OBVIOUS
<1> errors \in Seq(Places \cup AllServices) /\ at \in Places
  BY DEF IInv, TypeOK
<1>1. \/ errors' = errors
      \/ \E e \in Places \cup AllServices : errors' = Append(errors, e)
  BY DEF Next, PlaceStep, ServiceStep, LayerStep, Quiet, AskPlace, PlaceAnswers,
         PlaceFails, PlaceBreaks, Return, AskService, ServiceAnswers,
         ServiceFails, Gathered,
         AskLayer, LayerAnswers, CountEnds, LayerContained, LayerEscapes,
         Report, vars
<1>2. QED
  BY <1>1, OneMoreError

(* The second part of a sum is at most the sum. *)
LEMMA PartOfSum ==
  ASSUME NEW n \in Nat, NEW m \in Nat, NEW sum \in Nat, n + m = sum
  PROVE  m \in 0..sum
  OBVIOUS

(* No more slots are free than there are, and no fewer than none. *)
LEMMA FreeStep == IInv /\ [Next]_vars => free' \in 0..Slots
<1> SUFFICES ASSUME IInv, [Next]_vars PROVE free' \in 0..Slots
  OBVIOUS
<1>1. InFlight' \in Nat
  <2>1. /\ {s \in AllServices : service'[s] = "root"} \in SUBSET AllServices
        /\ {x \in AllServices \X Layers : layer'[x] \in {"metadata", "count"}}
             \in SUBSET LayerTasks
    BY DEF LayerTasks
  <2>2. QED
    BY <2>1, FiniteRequests DEF InFlight
<1>2. InFlight' + free' = Slots
  BY CapStep DEF CapIsGlobal
<1>3. Slots \in Nat
  BY CrawlAssumption
<1>4. free \in 0..Slots
  BY DEF IInv, TypeOK
<1>5. \/ free' = free
      \/ free > 0 /\ free' = free - 1
      \/ free' = free + 1
  BY DEF Next, PlaceStep, ServiceStep, LayerStep, Quiet, AskPlace, PlaceAnswers,
         PlaceFails, PlaceBreaks, Return, AskService, ServiceAnswers,
         ServiceFails, Gathered,
         AskLayer, LayerAnswers, CountEnds, LayerContained, LayerEscapes,
         Acquire, Release, vars
<1>6. free' \in Nat
  BY <1>3, <1>4, <1>5
<1>7. QED
  BY <1>1, <1>2, <1>3, <1>6, PartOfSum

(* The variables keep their types. *)
LEMMA TypeStep == IInv /\ [Next]_vars => TypeOK'
<1> SUFFICES ASSUME IInv, [Next]_vars PROVE TypeOK'
  OBVIOUS
<1>1. errors' \in Seq(Places \cup AllServices) /\ free' \in 0..Slots
  BY ErrorsStep, FreeStep
<1>2. engine' \in Engines
  BY DEF IInv, TypeOK, Next, PlaceStep, ServiceStep, LayerStep, Quiet, AskPlace,
         PlaceAnswers, PlaceFails, PlaceBreaks, Return, AskService,
         ServiceAnswers,
         ServiceFails, Gathered, AskLayer, LayerAnswers, CountEnds,
         LayerContained, LayerEscapes, vars
<1> DEFINE Rest ==
      /\ stage' \in {"places", "services", "returned", "gave up", "raised"}
      /\ at' \in Places
      /\ asking' \in BOOLEAN
      /\ service' \in [AllServices -> ServiceStates]
      /\ layer' \in [LayerTasks -> LayerStates]
<1> /\ stage \in {"places", "services", "returned", "gave up", "raised"}
    /\ at \in Places
    /\ asking \in BOOLEAN
    /\ service \in [AllServices -> ServiceStates]
    /\ layer \in [LayerTasks -> LayerStates]
  BY DEF IInv, TypeOK, ServiceStates, LayerTasks
<1>3. ASSUME AskPlace PROVE Rest
  BY <1>3 DEF AskPlace
<1>4. ASSUME PlaceAnswers \/ PlaceFails \/ PlaceBreaks PROVE Rest
  BY <1>4, OnwardKeepsTypes DEF PlaceAnswers, PlaceFails, PlaceBreaks
<1>5. ASSUME NEW s \in AllServices, ServiceStep(s) PROVE Rest
  BY <1>5 DEF ServiceStep, AskService, ServiceAnswers, ServiceFails, Gathered,
              FanOut, Report, ServiceStates, LayerStates, LayerTasks
<1>6. ASSUME NEW s \in AllServices, NEW l \in Layers, LayerStep(s, l)
      PROVE  Rest
  BY <1>6 DEF LayerStep, AskLayer, LayerAnswers, CountEnds, LayerContained,
              LayerEscapes, Report, ServiceStates, LayerStates, LayerTasks
<1>7. ASSUME Return \/ UNCHANGED vars PROVE Rest
  BY <1>7 DEF Return, vars
<1>8. Rest
  BY <1>3, <1>4, <1>5, <1>6, <1>7 DEF Next, PlaceStep, Quiet
<1>9. QED
  BY <1>1, <1>2, <1>8 DEF TypeOK, ServiceStates, LayerTasks

(* The services are there before their layers. *)
LEMMA StageStep == IInv /\ [Next]_vars => StageInv'
<1> SUFFICES ASSUME IInv, [Next]_vars PROVE StageInv'
  OBVIOUS
<1> /\ service \in [AllServices -> ServiceStates]
    /\ layer \in [LayerTasks -> LayerStates]
    /\ StageInv
  BY DEF IInv, TypeOK, ServiceStates, LayerTasks
<1>1. CASE AskPlace \/ Return \/ UNCHANGED vars
  BY <1>1 DEF AskPlace, Return, vars, StageInv
<1>2. CASE PlaceAnswers \/ PlaceFails \/ PlaceBreaks
  <2>1. \A s \in AllServices, l \in Layers : layer[<<s, l>>] = "none"
    BY <1>2 DEF PlaceAnswers, PlaceFails, PlaceBreaks, StageInv
  <2>2. layer' = layer
    BY <1>2 DEF PlaceAnswers, PlaceFails, PlaceBreaks
  <2>3. stage' = "places" =>
          \A s \in AllServices : service'[s] \in {"unknown", "listed"}
    BY <1>2 DEF PlaceAnswers, PlaceFails, PlaceBreaks, Onward, StageInv
  <2>4. QED
    BY <2>1, <2>2, <2>3 DEF StageInv
<1>3. CASE \E s \in AllServices : ServiceStep(s)
  <2> PICK s \in AllServices : ServiceStep(s)
    BY <1>3
  <2>1. stage' = stage /\ stage # "places"
    BY DEF ServiceStep, AskService, ServiceAnswers, ServiceFails, Gathered,
           StageInv
  <2>2. ASSUME NEW z \in AllServices, NEW l \in Layers,
               service'[z] \in {"unknown", "listed", "queued", "root"}
        PROVE  layer'[<<z, l>>] = "none"
    BY <2>2 DEF ServiceStep, AskService, ServiceAnswers, ServiceFails, Gathered,
                FanOut, Report, StageInv, ServiceStates, LayerTasks
  <2>3. QED
    BY <2>1, <2>2 DEF StageInv
<1>4. CASE \E s \in AllServices, l \in Layers : LayerStep(s, l)
  <2> PICK s \in AllServices, l \in Layers : LayerStep(s, l)
    BY <1>4
  <2>1. stage' = stage /\ layer[<<s, l>>] # "none"
    BY DEF LayerStep, AskLayer, LayerAnswers, CountEnds, LayerContained,
           LayerEscapes
  <2>2. stage # "places"
    BY <2>1 DEF StageInv
  <2>3. \A z \in AllServices : service'[z] \in {service[z], "failed"}
    BY DEF LayerStep, AskLayer, LayerAnswers, CountEnds, LayerContained,
           LayerEscapes, Report
  <2>4. \A x \in LayerTasks : x # <<s, l>> => layer'[x] = layer[x]
    BY DEF LayerStep, AskLayer, LayerAnswers, CountEnds, LayerContained,
           LayerEscapes, LayerTasks
  <2>5. QED
    BY <2>1, <2>2, <2>3, <2>4 DEF StageInv, LayerTasks
<1>5. QED
  BY <1>1, <1>2, <1>3, <1>4 DEF Next, PlaceStep, Quiet

(* No step takes a layer away from a service that was gathered. *)
LEMMA WholeStep == IInv /\ [Next]_vars => DoneServiceIsWhole'
<1> SUFFICES ASSUME IInv, [Next]_vars PROVE DoneServiceIsWhole'
  OBVIOUS
<1> /\ service \in [AllServices -> ServiceStates]
    /\ layer \in [LayerTasks -> LayerStates]
    /\ DoneServiceIsWhole
  BY DEF IInv, TypeOK, ServiceStates, LayerTasks
<1>1. CASE AskPlace \/ Return \/ UNCHANGED vars
  BY <1>1 DEF AskPlace, Return, vars, DoneServiceIsWhole
<1>2. CASE PlaceAnswers \/ PlaceFails \/ PlaceBreaks
  <2>1. \A s \in AllServices : service'[s] # "done"
    BY <1>2 DEF PlaceAnswers, PlaceFails, PlaceBreaks, Onward, IInv, StageInv
  <2>2. QED
    BY <2>1 DEF DoneServiceIsWhole
<1>3. CASE \E s \in AllServices : ServiceStep(s)
  <2> PICK s \in AllServices : ServiceStep(s)
    BY <1>3
  <2>1. ASSUME NEW z \in AllServices, NEW l \in Layers, service'[z] = "done"
        PROVE  layer'[<<z, l>>] \in Settled
    BY <2>1 DEF ServiceStep, AskService, ServiceAnswers, ServiceFails, Gathered,
                FanOut, Report, DoneServiceIsWhole, LayerTasks
  <2>2. QED
    BY <2>1 DEF DoneServiceIsWhole
<1>4. CASE \E s \in AllServices, l \in Layers : LayerStep(s, l)
  <2> PICK s \in AllServices, l \in Layers : LayerStep(s, l)
    BY <1>4
  <2>1. layer[<<s, l>>] \notin Settled
    BY DEF LayerStep, AskLayer, LayerAnswers, CountEnds, LayerContained,
           LayerEscapes, Settled
  <2>2. \A z \in AllServices : service'[z] \in {service[z], "failed"}
    BY DEF LayerStep, AskLayer, LayerAnswers, CountEnds, LayerContained,
           LayerEscapes, Report
  <2>3. \A x \in LayerTasks : x # <<s, l>> => layer'[x] = layer[x]
    BY DEF LayerStep, AskLayer, LayerAnswers, CountEnds, LayerContained,
           LayerEscapes, LayerTasks
  <2>4. QED
    BY <2>1, <2>2, <2>3 DEF DoneServiceIsWhole, LayerTasks
<1>5. QED
  BY <1>1, <1>2, <1>3, <1>4 DEF Next, PlaceStep, Quiet

-----------------------------------------------------------------------------
(* Errors and listings *)

(* A place that fails in safe_crawl is a new error, and a place before the *)
(* next one.                                                               *)
LEMMA PlaceErrors ==
  ASSUME IInv, PlaceAnswers \/ PlaceFails \/ PlaceBreaks
  PROVE  ErrorsInv'
<1> /\ errors \in Seq(Places \cup AllServices)
    /\ at \in Places
    /\ service \in [AllServices -> ServiceStates]
  BY DEF IInv, TypeOK, ServiceStates
<1> at \in Nat
  BY PlacesAreNumbered
<1> stage = "places" /\ engine' = engine
  BY DEF PlaceAnswers, PlaceFails, PlaceBreaks
<1> /\ \A i \in DOMAIN errors : errors[i] \in Places /\ errors[i] < at
    /\ IsInjective(errors)
    /\ ~engine.safe => errors = <<>>
  BY DEF IInv, ErrorsInv
<1>1. at \notin ToSet(errors)
  BY DEF ToSet
<1>2. \/ errors' = errors
      \/ engine.safe /\ errors' = Append(errors, at)
  BY DEF PlaceAnswers, PlaceFails, PlaceBreaks
<1>3. /\ ToSet(errors') \in {ToSet(errors), ToSet(errors) \cup {at}}
      /\ IsInjective(errors')
      /\ errors' \in Seq(Places \cup AllServices)
  <2>1. CASE errors' = errors
    BY <2>1
  <2>2. CASE errors' = Append(errors, at)
    <3>1. at \in Places \cup AllServices
      OBVIOUS
    <3>2. QED
      BY <1>1, <2>2, <3>1, OneMoreError
  <2>3. QED
    BY <1>2, <2>1, <2>2
<1>4. \A e \in ToSet(errors') : e \in Places /\ e <= at
  <2>1. \A e \in ToSet(errors) : e \in Places /\ e < at
    BY DEF ToSet
  <2>2. \A e \in Places : e \in Nat
    BY PlacesAreNumbered
  <2>3. ASSUME NEW e \in ToSet(errors) PROVE e <= at
    <3>1. e \in Nat /\ e < at
      BY <2>1, <2>2
    <3>2. QED
      BY <3>1
  <2>4. at <= at
    OBVIOUS
  <2>5. QED
    BY <1>3, <2>1, <2>3, <2>4
<1>5. \A s \in AllServices : s \notin ToSet(errors')
  BY <1>4, CrawlAssumption
<1>6. \A s \in AllServices : service'[s] # "failed"
  BY DEF PlaceAnswers, PlaceFails, PlaceBreaks, Onward, IInv, StageInv
<1>7. ~engine'.safe => errors' = <<>>
  BY <1>2
<1>8. ASSUME stage' = "places", NEW i \in DOMAIN errors'
      PROVE  errors'[i] \in Places /\ errors'[i] < at'
  <2>1. at' = at + 1
    BY <1>8 DEF PlaceAnswers, PlaceFails, PlaceBreaks, Onward
  <2>2. errors'[i] \in Places /\ errors'[i] <= at
    BY <1>4, <1>8 DEF ToSet
  <2>3. QED
    BY <2>1, <2>2, PlacesAreNumbered
<1>9. QED
  BY <1>3, <1>5, <1>6, <1>7, <1>8 DEF ErrorsInv

(* A service that fails is a new error, named by the service. *)
LEMMA ReportErrors ==
  ASSUME IInv, NEW s \in AllServices, Report(s), service[s] # "failed",
         stage # "places", stage' = stage, engine' = engine
  PROVE  ErrorsInv'
<1> /\ errors \in Seq(Places \cup AllServices)
    /\ service \in [AllServices -> ServiceStates]
    /\ ErrorsInv
  BY DEF IInv, TypeOK, ServiceStates
<1>1. service' = [service EXCEPT ![s] = "failed"]
  BY DEF Report
<1>2. CASE ~engine.safe
  <2>1. errors' = errors
    BY <1>2 DEF Report
  <2>2. QED
    BY <1>2, <2>1 DEF ErrorsInv
<1>3. CASE engine.safe
  <2>1. errors' = Append(errors, s) /\ s \notin ToSet(errors)
    BY <1>3 DEF Report, ErrorsInv
  <2>2. /\ ToSet(errors') = ToSet(errors) \cup {s}
        /\ IsInjective(errors')
    BY <2>1, OneMoreError DEF ErrorsInv
  <2>3. \A z \in AllServices : service'[z] = "failed" <=> z \in ToSet(errors')
    BY <1>1, <1>3, <2>2 DEF ErrorsInv
  <2>4. QED
    BY <1>3, <2>2, <2>3 DEF ErrorsInv
<1>4. QED
  BY <1>2, <1>3

(* The errors are distinct, and name the services that failed. *)
LEMMA ErrorsInvStep == IInv /\ [Next]_vars => ErrorsInv'
<1> SUFFICES ASSUME IInv, [Next]_vars PROVE ErrorsInv'
  OBVIOUS
<1> /\ service \in [AllServices -> ServiceStates]
    /\ ErrorsInv
  BY DEF IInv, TypeOK, ServiceStates
<1>1. CASE AskPlace \/ Return \/ UNCHANGED vars
  BY <1>1 DEF AskPlace, Return, vars, ErrorsInv
<1>2. CASE PlaceAnswers \/ PlaceFails \/ PlaceBreaks
  BY <1>2, PlaceErrors
<1>3. ASSUME NEW s \in AllServices, ServiceStep(s) PROVE ErrorsInv'
  <2>1. stage # "places"
    BY <1>3 DEF ServiceStep, AskService, ServiceAnswers, ServiceFails, Gathered,
                IInv, StageInv
  <2>2. CASE ServiceFails(s)
    BY <2>1, <2>2, ReportErrors DEF ServiceFails
  <2>3. CASE AskService(s) \/ ServiceAnswers(s) \/ Gathered(s)
    <3>1. /\ errors' = errors /\ stage' = stage /\ engine' = engine
      BY <2>3 DEF AskService, ServiceAnswers, Gathered
    <3>2. \A z \in AllServices : service'[z] = "failed" <=> service[z] = "failed"
      BY <2>3 DEF AskService, ServiceAnswers, Gathered
    <3>3. QED
      BY <2>1, <3>1, <3>2 DEF ErrorsInv
  <2>4. QED
    BY <1>3, <2>2, <2>3 DEF ServiceStep
<1>4. ASSUME NEW s \in AllServices, NEW l \in Layers, LayerStep(s, l)
      PROVE  ErrorsInv'
  <2>1. stage' = stage /\ engine' = engine /\ layer[<<s, l>>] # "none"
    BY <1>4 DEF LayerStep, AskLayer, LayerAnswers, CountEnds, LayerContained,
                LayerEscapes
  <2>2. stage # "places"
    BY <2>1 DEF IInv, StageInv
  <2>3. \/ UNCHANGED <<service, errors>>
        \/ service[s] = "layers" /\ Report(s)
    BY <1>4 DEF LayerStep, AskLayer, LayerAnswers, CountEnds, LayerContained,
                LayerEscapes
  <2>4. CASE UNCHANGED <<service, errors>>
    BY <2>1, <2>2, <2>4 DEF ErrorsInv
  <2>5. CASE service[s] = "layers" /\ Report(s)
    BY <2>1, <2>2, <2>5, ReportErrors
  <2>6. QED
    BY <2>3, <2>4, <2>5
<1>5. QED
  BY <1>1, <1>2, <1>3, <1>4 DEF Next, PlaceStep, Quiet

(* The places in order: the base, and then the folders. *)
LEMMA PlacesInOrder ==
  ASSUME NEW p \in Places
  PROVE  \A j \in DOMAIN Folders :
           /\ j # Base
           /\ j < p + 1 => j < p \/ j = p
           /\ p = Len(Folders) => j < p \/ j = p
<1>1. p \in Nat /\ p <= Len(Folders) /\ Len(Folders) \in Nat
  BY PlacesAreNumbered
<1>2. ASSUME NEW j \in 1..Len(Folders)
      PROVE  /\ j # 0
             /\ j < p + 1 => j < p \/ j = p
             /\ p = Len(Folders) => j < p \/ j = p
  BY <1>1, <1>2
<1>3. QED
  BY <1>2, PlacesAreNumbered DEF Base

(* The names in the errors after a place failed. *)
LEMMA PlaceNamed ==
  ASSUME errors \in Seq(Places \cup AllServices), at \in Places
  PROVE  ToSet(Append(errors, at)) = ToSet(errors) \cup {at}
<1>1. at \in Places \cup AllServices
  OBVIOUS
<1>2. QED
  BY <1>1, OneMoreError

(* Who is unknown after a place was unknown before, and not listed by it.  *)
LEMMA StillUnknown ==
  ASSUME NEW listed, Onward(listed),
         NEW s \in AllServices, service'[s] = "unknown"
  PROVE  service[s] = "unknown" /\ s \notin listed
  BY DEF Onward

(* A place that answers lists its services; one that fails is an error.    *)
LEMMA PlaceListing ==
  ASSUME IInv, PlaceAnswers \/ PlaceFails \/ PlaceBreaks
  PROVE  ListingInv'
<1> SUFFICES ASSUME engine.safe, NEW s \in AllServices, service'[s] = "unknown",
                    stage' \notin {"gave up", "raised"}
             PROVE  /\ stage' = "places" =>
                         /\ s \in BaseServices => at' = Base
                         /\ \A j \in DOMAIN Folders :
                              s \in Folders[j] /\ j < at' => j \in ToSet(errors')
                    /\ stage' \in {"services", "returned"} =>
                         \E j \in ToSet(errors') \cap DOMAIN Folders :
                           s \in Folders[j]
  BY DEF PlaceAnswers, PlaceFails, PlaceBreaks, ListingInv
<1> /\ errors \in Seq(Places \cup AllServices)
    /\ at \in Places
    /\ service \in [AllServices -> ServiceStates]
  BY DEF IInv, TypeOK, ServiceStates
<1> stage = "places"
  BY DEF PlaceAnswers, PlaceFails, PlaceBreaks
<1>2. \/ Onward(Listed(at)) /\ errors' = errors
      \/ at # Base /\ Onward({}) /\ errors' = Append(errors, at)
  BY DEF PlaceAnswers, PlaceFails, PlaceBreaks
<1>3. service[s] = "unknown"
  BY <1>2, StillUnknown
<1>4. /\ s \in BaseServices => at = Base
      /\ \A j \in DOMAIN Folders :
           s \in Folders[j] /\ j < at => j \in ToSet(errors)
  BY <1>3 DEF IInv, ListingInv
<1>5. s \notin BaseServices
  <2>1. CASE Onward(Listed(at))
    BY <1>4, <2>1, StillUnknown DEF Listed
  <2>2. CASE at # Base
    BY <1>4, <2>2
  <2>3. QED
    BY <1>2, <2>1, <2>2
<1>6. ToSet(Append(errors, at)) = ToSet(errors) \cup {at}
  BY PlaceNamed
<1>7. at # Base /\ s \in Folders[at] => at \in ToSet(errors')
  <2>1. CASE Onward(Listed(at))
    BY <2>1, StillUnknown DEF Listed
  <2>2. CASE errors' = Append(errors, at)
    BY <1>6, <2>2
  <2>3. QED
    BY <1>2, <2>1, <2>2
<1>8. ASSUME NEW j \in DOMAIN Folders, s \in Folders[j], j < at \/ j = at
      PROVE  j \in ToSet(errors')
  <2>1. j # Base
    BY PlacesInOrder
  <2>2. ToSet(errors) \subseteq ToSet(errors')
    BY <1>2, <1>6
  <2>3. QED
    BY <1>4, <1>7, <1>8, <2>1, <2>2
<1>9. \/ stage' = "services" /\ at = Len(Folders)
      \/ stage' = "places" /\ at' = at + 1
  BY <1>2 DEF Onward
<1>10. CASE stage' = "services" /\ at = Len(Folders)
  <2>1. PICK j \in DOMAIN Folders : s \in Folders[j]
    BY <1>5, ServicesAreListed
  <2>2. j < at \/ j = at
    BY <1>10, PlacesInOrder
  <2>3. j \in ToSet(errors')
    BY <1>8, <2>1, <2>2
  <2>4. QED
    BY <1>10, <2>1, <2>3
<1>11. CASE stage' = "places" /\ at' = at + 1
  <2>1. ASSUME NEW j \in DOMAIN Folders, s \in Folders[j], j < at'
        PROVE  j \in ToSet(errors')
    <3>1. j < at \/ j = at
      BY <1>11, <2>1, PlacesInOrder
    <3>2. QED
      BY <1>8, <2>1, <3>1
  <2>2. QED
    BY <1>5, <1>11, <2>1
<1>12. QED
  BY <1>9, <1>10, <1>11

(* After the places, no service becomes unknown and no error goes away.    *)
LEMMA ListingStep == IInv /\ [Next]_vars => ListingInv'
<1> SUFFICES ASSUME IInv, [Next]_vars PROVE ListingInv'
  OBVIOUS
<1> /\ service \in [AllServices -> ServiceStates]
    /\ errors \in Seq(Places \cup AllServices)
    /\ ListingInv
  BY DEF IInv, TypeOK, ServiceStates
<1>1. CASE AskPlace \/ UNCHANGED vars
  BY <1>1 DEF AskPlace, vars, ListingInv
<1>2. CASE PlaceAnswers \/ PlaceFails \/ PlaceBreaks
  BY <1>2, PlaceListing
<1>3. CASE Return
  BY <1>3 DEF Return, ListingInv
<1>4. ASSUME NEW s \in AllServices,
             \/ ServiceStep(s)
             \/ \E l \in Layers : LayerStep(s, l)
      PROVE  ListingInv'
  <2>1. /\ stage' = stage /\ engine' = engine
        /\ \/ errors' = errors
           \/ errors' = Append(errors, s)
    BY <1>4 DEF ServiceStep, AskService, ServiceAnswers, ServiceFails, Gathered,
                LayerStep, AskLayer, LayerAnswers, CountEnds, LayerContained,
                LayerEscapes, Report
  <2>2. stage # "places"
    BY <1>4 DEF ServiceStep, AskService, ServiceAnswers, ServiceFails, Gathered,
                LayerStep, AskLayer, LayerAnswers, CountEnds, LayerContained,
                LayerEscapes, IInv, StageInv
  <2>3. \A z \in AllServices : service'[z] = "unknown" => service[z] = "unknown"
    BY <1>4 DEF ServiceStep, AskService, ServiceAnswers, ServiceFails, Gathered,
                LayerStep, AskLayer, LayerAnswers, CountEnds, LayerContained,
                LayerEscapes, Report
  <2>4. ToSet(errors) \subseteq ToSet(errors')
    <3>1. s \in Places \cup AllServices
      OBVIOUS
    <3>2. ToSet(Append(errors, s)) = ToSet(errors) \cup {s}
      BY <3>1, OneMoreError
    <3>3. QED
      BY <2>1, <3>2
  <2>5. QED
    BY <2>1, <2>2, <2>3, <2>4 DEF ListingInv
<1>5. QED
  BY <1>1, <1>2, <1>3, <1>4 DEF Next, PlaceStep, Quiet

-----------------------------------------------------------------------------

LEMMA Invariance == Spec => []IInv
<1>1. IInv /\ [Next]_vars => IInv'
  BY TypeStep, CapStep, StageStep, WholeStep, ErrorsInvStep, ListingStep
     DEF IInv
<1>2. QED
  BY InitIInv, <1>1, PTL DEF Spec

(* The crawl's variables keep their types; no slot beyond the semaphore's  *)
(* is ever free.                                                           *)
THEOREM TypeCorrect == Spec => []TypeOK
<1>1. IInv => TypeOK
  BY DEF IInv
<1>2. QED
  BY <1>1, Invariance, PTL

(* Never more than max_concurrent_requests requests of a crawl are out, at *)
(* all levels together and on every path of success and failure, and no    *)
(* slot is lost.                                                           *)
THEOREM CapHolds == Spec => []CapIsGlobal
<1>1. IInv => CapIsGlobal
  BY DEF IInv
<1>2. QED
  BY <1>1, Invariance, PTL

(* A service that the crawl returns with its metadata has all its layers.  *)
THEOREM ServicesAreWhole == Spec => []DoneServiceIsWhole
<1>1. IInv => DoneServiceIsWhole
  BY DEF IInv
<1>2. QED
  BY <1>1, Invariance, PTL

(* What safe_crawl returns accounts for every service of the directory:    *)
(* with metadata, with exactly one error of its own, or with the error of  *)
(* the folder that would have listed it.                                   *)
THEOREM NothingIsLost == Spec => []EveryServiceAccounted
<1>1. IInv => EveryServiceAccounted
  BY DEF IInv, ErrorsInv, ListingInv, EveryServiceAccounted
<1>2. QED
  BY <1>1, Invariance, PTL

-----------------------------------------------------------------------------
(* The Directory client *)

(* Every attribute shows a crawl that has returned, and the two caches are *)
(* empty only as long as no crawl that fills them has returned.            *)
ShownInv ==
  /\ {services, counted, report} \subseteq finished \cup {None}
  /\ counted # None => counted.counted
  /\ counted = None => \A r \in finished : ~r.counted
  /\ services = None => finished = {} /\ \A t \in Tasks : answer[t] = None

(* Without overlap at most one crawl is out, and it was started because    *)
(* its cache was empty.                                                    *)
TurnsInv ==
  ~overlapped =>
    /\ \A t, u \in Crawling : t = u
    /\ \A t \in Tasks : /\ call[t] = "plain" => services = None
                        /\ call[t] = "counts" => counted = None

(* The bound on crawls is what numbers the reports.                        *)
BoundInv ==
  /\ IsFiniteSet(finished)
  /\ Cardinality(finished) + Cardinality(Crawling) <= MaxCrawls
  /\ \A r \in finished : r.number <= Cardinality(finished)

(* Before from_url has returned, nobody crawls. *)
PrepInv ==
  /\ ~usable => Crawling = {} /\ finished = {}
  /\ fromUrl /\ usable => metadata

ClientInv ==
  /\ DirectoryTypeOK /\ ShownInv /\ TurnsInv /\ BoundInv /\ PrepInv
  /\ OneCrawlAtATimeAgrees /\ OneCrawlOfEachKind

-----------------------------------------------------------------------------

(* Sets of tasks are finite. *)
LEMMA CrawlersAreFinite ==
  \A S \in SUBSET Tasks : IsFiniteSet(S) /\ Cardinality(S) \in Nat
BY DirectoryAssumption, FS_Subset, FS_CardinalityType

(* One task more is out. *)
LEMMA OneMore ==
  \A t \in Tasks : \A S \in SUBSET (Tasks \ {t}) :
    Cardinality(S \cup {t}) = Cardinality(S) + 1
BY CrawlersAreFinite, FS_AddElement

LEMMA InitEstablishes == DirectoryInit => ClientInv
<1> SUFFICES ASSUME DirectoryInit PROVE ClientInv
  OBVIOUS
<1>1. Crawling = {}
  BY DEF DirectoryInit, Crawling
<1>2. IsFiniteSet(finished) /\ Cardinality(finished) = 0 /\ Cardinality(Crawling) = 0
  BY <1>1, FS_EmptySet DEF DirectoryInit
<1>3. DirectoryTypeOK
  BY DEF DirectoryInit, DirectoryTypeOK
<1>4. ShownInv /\ TurnsInv /\ PrepInv /\ OneCrawlAtATimeAgrees /\ OneCrawlOfEachKind
  BY <1>1, DirectoryAssumption
  DEF DirectoryInit, ShownInv, TurnsInv, PrepInv, OneCrawlAtATimeAgrees,
       OneCrawlOfEachKind
<1>5. BoundInv
  BY <1>2, DirectoryAssumption DEF DirectoryInit, BoundInv
<1>6. QED
  BY <1>3, <1>4, <1>5 DEF ClientInv

(* A step that neither starts nor ends a crawl and changes no attribute.   *)
LEMMA QuietStep ==
  ASSUME ClientInv, DirectoryTypeOK', Crawling' = Crawling,
         UNCHANGED <<services, counted, report, fromUrl, answer, finished,
                     overlapped>>,
         \A t \in Tasks : call'[t] \in {"plain", "counts"} => call'[t] = call[t],
         usable => usable', metadata => metadata',
         usable' # usable => metadata'
  PROVE  ClientInv'
<1>1. ShownInv' /\ OneCrawlAtATimeAgrees' /\ OneCrawlOfEachKind'
  BY DEF ClientInv, ShownInv, OneCrawlAtATimeAgrees, OneCrawlOfEachKind
<1>2. TurnsInv'
  BY DEF ClientInv, TurnsInv, DirectoryTypeOK
<1>3. BoundInv'
  BY DEF ClientInv, BoundInv
<1>4. PrepInv'
  BY DEF ClientInv, PrepInv, DirectoryTypeOK
<1>5. QED
  BY <1>1, <1>2, <1>3, <1>4 DEF ClientInv

LEMMA PrepSteps ==
  ASSUME ClientInv, NEW t \in Tasks, Prep(t) \/ PrepAnswers(t) \/ PrepFails(t)
  PROVE  ClientInv'
<1>1. DirectoryTypeOK'
  BY DEF ClientInv, DirectoryTypeOK, Prep, PrepAnswers, PrepFails
<1>2. /\ call[t] \notin {"plain", "counts"} /\ call'[t] \notin {"plain", "counts"}
      /\ \A u \in Tasks \ {t} : call'[u] = call[u]
  BY DEF ClientInv, DirectoryTypeOK, Prep, PrepAnswers, PrepFails
<1>3. Crawling' = Crawling
  BY <1>2 DEF Crawling
<1>4. CASE Prep(t)
  BY <1>1, <1>2, <1>3, <1>4, QuietStep DEF Prep
<1>5. CASE PrepAnswers(t)
  BY <1>1, <1>2, <1>3, <1>5, QuietStep DEF PrepAnswers
<1>6. CASE PrepFails(t)
  BY <1>1, <1>2, <1>3, <1>6, QuietStep DEF PrepFails
<1>7. QED
  BY <1>4, <1>5, <1>6

LEMMA CrawlCachedStep ==
  ASSUME ClientInv, NEW t \in Tasks, NEW withCounts \in BOOLEAN,
         CrawlCached(t, withCounts)
  PROVE  ClientInv'
<1> USE DEF CrawlCached
<1>1. /\ CacheOf(withCounts) \in Reports /\ CacheOf(withCounts) \in finished
      /\ CacheOf(withCounts) # None
  BY DEF CacheOf, ClientInv, DirectoryTypeOK, ShownInv
<1>2. Crawling' = Crawling
  BY DEF Crawling
<1>3. DirectoryTypeOK'
  BY <1>1 DEF ClientInv, DirectoryTypeOK
<1>4. ShownInv'
  BY <1>1 DEF ClientInv, ShownInv, DirectoryTypeOK
<1>5. services # None => finished # {}
  BY DEF ClientInv, ShownInv
<1>6. ~overlapped => services' = services
  BY DEF ClientInv, OneCrawlAtATimeAgrees, CacheOf
<1>7. OneCrawlAtATimeAgrees' /\ OneCrawlOfEachKind'
  BY <1>6 DEF ClientInv, OneCrawlAtATimeAgrees, OneCrawlOfEachKind
<1>8. TurnsInv'
  BY <1>2, <1>6 DEF ClientInv, TurnsInv
<1>9. BoundInv' /\ PrepInv'
  BY <1>2 DEF ClientInv, BoundInv, PrepInv
<1>10. QED
  BY <1>3, <1>4, <1>7, <1>8, <1>9 DEF ClientInv

LEMMA CrawlAsksStep ==
  ASSUME ClientInv, NEW t \in Tasks, NEW withCounts \in BOOLEAN,
         CrawlAsks(t, withCounts)
  PROVE  ClientInv'
<1> USE DEF CrawlAsks
<1>1. /\ call'[t] = Kind(withCounts) /\ Kind(withCounts) \in {"plain", "counts"}
      /\ \A u \in Tasks \ {t} : call'[u] = call[u]
  BY DEF ClientInv, DirectoryTypeOK, Kind
<1>2. t \notin Crawling /\ Crawling' = Crawling \cup {t}
  BY <1>1 DEF Crawling
<1>3. DirectoryTypeOK'
  BY <1>1 DEF ClientInv, DirectoryTypeOK
<1>4. ShownInv' /\ OneCrawlAtATimeAgrees' /\ OneCrawlOfEachKind'
  BY DEF ClientInv, ShownInv, OneCrawlAtATimeAgrees, OneCrawlOfEachKind,
       DirectoryTypeOK
<1>5. TurnsInv'
  <2> SUFFICES ASSUME ~overlapped' PROVE TurnsInv'
    BY DEF TurnsInv
  <2>1. Crawling = {} /\ ~overlapped
    BY DEF ClientInv, DirectoryTypeOK
  <2>2. \A u \in Tasks \ {t} : call'[u] \notin {"plain", "counts"}
    BY <1>1, <2>1 DEF Crawling
  <2>3. /\ call'[t] = "plain" => services' = None
        /\ call'[t] = "counts" => counted' = None
    BY <1>1 DEF CacheOf, Kind
  <2>4. QED
    BY <1>2, <2>1, <2>2, <2>3 DEF TurnsInv
<1>6. BoundInv'
  <2>1. Crawling \in SUBSET (Tasks \ {t})
    BY <1>2 DEF Crawling
  <2>2. Cardinality(Crawling') = Cardinality(Crawling) + 1
    BY <1>2, <2>1, OneMore
  <2>3. Cardinality(Crawling) \in Nat /\ Cardinality(finished) \in Nat
    BY <2>1, CrawlersAreFinite, FS_CardinalityType DEF ClientInv, BoundInv
  <2>4. QED
    BY <2>2, <2>3, DirectoryAssumption DEF ClientInv, BoundInv
<1>7. PrepInv'
  BY DEF ClientInv, PrepInv
<1>8. QED
  BY <1>3, <1>4, <1>5, <1>6, <1>7 DEF ClientInv

LEMMA CrawlReturnsStep ==
  ASSUME ClientInv, NEW t \in Tasks, CrawlAnswers(t)
  PROVE  ClientInv'
<1>1. PICK new : /\ new.number = Cardinality(finished) + 1
                 /\ new.counted = (call[t] = "counts")
                 /\ \E found \in Found :
                      new = [number |-> Cardinality(finished) + 1,
                             counted |-> call[t] = "counts", found |-> found]
                 /\ report' = new /\ services' = new
                 /\ counted' = IF new.counted THEN new ELSE counted
                 /\ answer' = [answer EXCEPT ![t] = new]
                 /\ finished' = finished \cup {new}
  BY DEF CrawlAnswers, Store
<1>2. /\ call[t] \in {"plain", "counts"} /\ call'[t] = "idle"
      /\ \A u \in Tasks \ {t} : call'[u] = call[u]
      /\ t \in Crawling /\ Crawling' = Crawling \ {t}
      /\ UNCHANGED <<metadata, usable, fromUrl, overlapped>>
  BY DEF CrawlAnswers, Crawling, ClientInv, DirectoryTypeOK
<1>3. Cardinality(finished) \in Nat /\ IsFiniteSet(finished)
  BY FS_CardinalityType DEF ClientInv, BoundInv
<1>4. Cardinality(Crawling) = Cardinality(Crawling') + 1 /\ Cardinality(Crawling') \in Nat
  <2>1. Crawling' \in SUBSET (Tasks \ {t}) /\ Crawling = Crawling' \cup {t}
    BY <1>2 DEF Crawling
  <2>2. QED
    BY <2>1, OneMore, CrawlersAreFinite
<1>5. new \notin finished
  BY <1>1, <1>3 DEF ClientInv, BoundInv
<1>6. IsFiniteSet(finished') /\ Cardinality(finished') = Cardinality(finished) + 1
  BY <1>1, <1>3, <1>5, FS_AddElement
<1>7. BoundInv'
  <2>1. Cardinality(finished) + Cardinality(Crawling) <= MaxCrawls
    BY DEF ClientInv, BoundInv
  <2>2. \A r \in finished' : r.number <= Cardinality(finished')
    <3>1. \A r \in finished : r.number \in Nat /\ r.number <= Cardinality(finished)
      BY DEF ClientInv, BoundInv, DirectoryTypeOK, Reports
    <3>2. QED
      BY <1>1, <1>3, <1>6, <3>1
  <2>3. QED
    BY <1>3, <1>4, <1>6, <2>1, <2>2, DirectoryAssumption DEF BoundInv
<1>8. new \in Reports
  <2>1. new.number \in 1..MaxCrawls
    BY <1>1, <1>3, <1>4, DirectoryAssumption DEF ClientInv, BoundInv
  <2>2. QED
    BY <1>1, <2>1 DEF Reports
<1>9. DirectoryTypeOK'
  BY <1>1, <1>2, <1>8 DEF ClientInv, DirectoryTypeOK, CrawlAnswers
<1>10. new # None
  BY <1>8, DirectoryAssumption
<1>11. ShownInv'
  BY <1>1, <1>8, <1>10 DEF ClientInv, ShownInv
<1>12. TurnsInv'
  <2> SUFFICES ASSUME ~overlapped' PROVE TurnsInv'
    BY DEF TurnsInv
  <2>1. Crawling' = {}
    BY <1>2 DEF ClientInv, TurnsInv
  <2>2. QED
    BY <2>1 DEF TurnsInv, Crawling
<1>13. ~overlapped => (call[t] = "plain" => finished = {})
  BY <1>2 DEF ClientInv, TurnsInv, ShownInv
<1>14. ~overlapped => (call[t] = "counts" => \A r \in finished : ~r.counted)
  BY <1>2 DEF ClientInv, TurnsInv, ShownInv
<1>15. OneCrawlAtATimeAgrees'
  <2>1. ~overlapped /\ call[t] = "plain" => counted = None
    BY <1>2, <1>13 DEF ClientInv, ShownInv
  <2>2. QED
    BY <1>1, <1>2, <2>1 DEF OneCrawlAtATimeAgrees
<1>16. OneCrawlOfEachKind'
  BY <1>1, <1>2, <1>13, <1>14 DEF ClientInv, OneCrawlOfEachKind,
       DirectoryTypeOK, Reports
<1>17. PrepInv'
  BY <1>2 DEF ClientInv, PrepInv
<1>18. QED
  BY <1>7, <1>9, <1>11, <1>12, <1>15, <1>16, <1>17 DEF ClientInv

LEMMA CrawlRaisesStep ==
  ASSUME ClientInv, NEW t \in Tasks, CrawlRaises(t)
  PROVE  ClientInv'
<1> USE DEF CrawlRaises
<1>1. /\ call'[t] = "idle" /\ \A u \in Tasks \ {t} : call'[u] = call[u]
      /\ Crawling' = Crawling \ {t} /\ t \in Crawling
  BY DEF Crawling, ClientInv, DirectoryTypeOK
<1>2. DirectoryTypeOK'
  BY DEF ClientInv, DirectoryTypeOK
<1>3. ShownInv' /\ OneCrawlAtATimeAgrees' /\ OneCrawlOfEachKind' /\ PrepInv'
  BY <1>1 DEF ClientInv, ShownInv, OneCrawlAtATimeAgrees, OneCrawlOfEachKind,
       PrepInv
<1>4. TurnsInv'
  BY <1>1 DEF ClientInv, TurnsInv
<1>5. BoundInv'
  <2>1. Cardinality(Crawling) = Cardinality(Crawling') + 1 /\ Cardinality(Crawling') \in Nat
    <3>1. Crawling' \in SUBSET (Tasks \ {t}) /\ Crawling = Crawling' \cup {t}
      BY <1>1 DEF Crawling
    <3>2. QED
      BY <3>1, OneMore, CrawlersAreFinite
  <2>2. Cardinality(finished) \in Nat
    BY FS_CardinalityType DEF ClientInv, BoundInv
  <2>3. QED
    BY <2>1, <2>2, DirectoryAssumption DEF ClientInv, BoundInv
<1>6. QED
  BY <1>2, <1>3, <1>4, <1>5 DEF ClientInv

LEMMA NextPreserves == ClientInv /\ [DirectoryNext]_directoryVars => ClientInv'
<1> SUFFICES ASSUME ClientInv, [DirectoryNext]_directoryVars PROVE ClientInv'
  OBVIOUS
<1>1. CASE UNCHANGED directoryVars
  BY <1>1 DEF directoryVars, ClientInv, DirectoryTypeOK, ShownInv, TurnsInv,
       BoundInv, PrepInv,
       OneCrawlAtATimeAgrees, OneCrawlOfEachKind, Crawling
<1>2. CASE DirectoryNext
  BY <1>2, PrepSteps, CrawlCachedStep, CrawlAsksStep, CrawlReturnsStep,
     CrawlRaisesStep DEF DirectoryNext
<1>3. QED
  BY <1>1, <1>2

LEMMA InvariantHolds == DirectorySpec => []ClientInv
<1>1. QED
  BY InitEstablishes, NextPreserves, PTL DEF DirectorySpec

-----------------------------------------------------------------------------

(* The Directory's attributes keep their types: every one of them, and all *)
(* that crawl has answered, is unset or a report (directory.py:14-67).     *)
THEOREM DirectoryTypeCorrect == DirectorySpec => []DirectoryTypeOK
<1>1. ClientInv => DirectoryTypeOK
  BY DEF ClientInv
<1>2. QED
  BY <1>1, InvariantHolds, PTL

(* A filter lists layers that some crawl has seen, and does not raise once *)
(* anybody was answered (directory.py:194-255).                            *)
LEMMA FiltersServe == ClientInv => FilterServesCallers
<1> SUFFICES ASSUME ClientInv PROVE FilterServesCallers
  OBVIOUS
<1>1. (\E t \in Tasks : answer[t] # None) => services # None
  BY DEF ClientInv, ShownInv
<1>2. services # None => services \in finished
  BY DEF ClientInv, ShownInv
<1>3. \A l \in Filtered("Feature Layer") :
        \E s \in Services : l \in LayersOf[s] /\ services.found[s] = "full"
  BY DEF Filtered
<1>4. QED
  BY <1>1, <1>2, <1>3 DEF FilterServesCallers, FilterRaises

(* The attributes of a Directory belong together, and to crawls that were  *)
(* made, whatever overlaps, fails or finds nothing (directory.py:170-192). *)
THEOREM AttributesBelongTogether == DirectorySpec => []AttributesAgree
<1>1. ClientInv => CountsAreCounted
  BY DEF ClientInv, ShownInv, CountsAreCounted
<1>2. ClientInv => PreparedBeforeUse
  BY DEF ClientInv, PrepInv, PreparedBeforeUse, DirectoryTypeOK
<1>3. ClientInv => AttributesAgree
  BY <1>1, <1>2, FiltersServe DEF ClientInv, AttributesAgree
<1>4. QED
  BY <1>3, InvariantHolds, PTL

(* Filled caches settle: no answer replaces the counts once no counting    *)
(* crawl is out, nor services once none is (directory.py:172-192).         *)
THEOREM FilledCachesSettle == DirectorySpec => CacheSettles
<1> DEFINE Agreed ==
      /\ counted # None /\ (\A t \in Tasks : call[t] # "counts") =>
           counted' = counted
      /\ services # None /\ Crawling = {} => services' \in {services, counted}
<1>1. ASSUME NEW t \in Tasks, Prep(t) \/ PrepAnswers(t) \/ PrepFails(t) \/ CrawlRaises(t)
      PROVE  Agreed
  BY <1>1 DEF Prep, PrepAnswers, PrepFails, CrawlRaises
<1>2. ASSUME NEW t \in Tasks, NEW withCounts \in BOOLEAN,
             CrawlCached(t, withCounts) \/ CrawlAsks(t, withCounts)
      PROVE  Agreed
  BY <1>2 DEF CrawlCached, CrawlAsks, CacheOf
<1>3. ASSUME NEW t \in Tasks, CrawlAnswers(t)
      PROVE  Agreed
  <2>1. call[t] # "counts" => counted' = counted
    BY <1>3 DEF CrawlAnswers, Store
  <2>2. Crawling # {}
    BY <1>3 DEF CrawlAnswers
  <2>3. QED
    BY <2>1, <2>2
<1>4. UNCHANGED directoryVars => Agreed
  BY DEF directoryVars
<1>5. [DirectoryNext]_directoryVars =>
        [/\ counted # None /\ (\A t \in Tasks : call[t] # "counts") =>
              counted' = counted
         /\ services # None /\ Crawling = {} =>
              services' \in {services, counted}]_directoryVars
  BY <1>1, <1>2, <1>3, <1>4 DEF DirectoryNext
<1>6. QED
  BY <1>5, PTL DEF DirectorySpec, CacheSettles
=============================================================================
