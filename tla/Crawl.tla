------------------------------- MODULE Crawl --------------------------------
(***************************************************************************)
(* A crawl of a services directory: safe_crawl and fetch_all_data          *)
(* (restgdf/utils/crawl.py) ask the base and then its folders one after    *)
(* the other, and run service_metadata (utils/getinfo.py) for all services *)
(* at once; each service fans out over its layers with bounded_gather      *)
(* (utils/_concurrency.py).  One semaphore is shared by all of it.         *)
(*                                                                         *)
(* A gather hands on the first exception of its tasks and lets the others  *)
(* run: these go on, and keep their slots, after the crawl has returned.   *)
(***************************************************************************)
EXTENDS Naturals, FiniteSets, Sequences, SequencesExt

CONSTANTS
  BaseServices,      (* services the base lists                             *)
  Folders,           (* a sequence of sets of services                      *)
  Layers,            (* layers of each service                              *)
  Slots              (* max_concurrent_requests                             *)

AllServices == BaseServices \cup UNION ToSet(Folders)

Base == 0
Places == {Base} \cup DOMAIN Folders

ASSUME CrawlAssumption ==
  /\ Slots \in Nat \ {0}
  /\ Folders \in Seq(SUBSET AllServices)
  /\ IsFiniteSet(AllServices) /\ IsFiniteSet(Layers)
  /\ AllServices \cap Places = {}
  /\ \A i \in DOMAIN Folders : Folders[i] \cap BaseServices = {}
  /\ \A i, j \in DOMAIN Folders : i # j => Folders[i] \cap Folders[j] = {}

VARIABLES
  engine,    (* which of the two functions, with feature counts or without  *)
  stage,     (* asking places, fanning out over services, or over           *)
  at,        (* the place asked last                                        *)
  asking,    (* whether the place's request is out, not waiting for a slot  *)
  service,   (* the service_metadata task of each service                   *)
  layer,     (* the layer tasks of each service                             *)
  free,      (* slots of the semaphore                                      *)
  errors     (* CrawlReport.errors, as the URLs they name                   *)

vars == <<engine, stage, at, asking, service, layer, free, errors>>

Engines == [safe : BOOLEAN, counts : BOOLEAN]

LayerStates ==
  {"none", "queued", "metadata", "count", "ok", "marked", "escaped"}

TypeOK ==
  /\ engine \in Engines
  /\ stage \in {"places", "services", "returned", "gave up", "raised"}
  /\ at \in Places
  /\ asking \in BOOLEAN
  /\ service \in [AllServices ->
       {"unknown", "listed", "queued", "root", "layers", "done", "failed"}]
  /\ layer \in [AllServices \X Layers -> LayerStates]
  /\ free \in 0..Slots
  /\ errors \in Seq(Places \cup AllServices)

Init ==
  /\ engine \in Engines
  /\ stage = "places"
  /\ at = Base
  /\ asking = FALSE
  /\ service = [s \in AllServices |-> "unknown"]
  /\ layer = [x \in AllServices \X Layers |-> "none"]
  /\ free = Slots
  /\ errors = <<>>

-----------------------------------------------------------------------------

(* Mutant: a task does not wait for a slot. *)
Acquire_NoWait == free' = free - 1

Acquire == free > 0 /\ free' = free - 1
Release == free' = free + 1

(* The base, then each folder: ask under a slot. *)
AskPlace ==
  /\ stage = "places" /\ ~asking
  /\ Acquire
  /\ asking' = TRUE
  /\ UNCHANGED <<engine, stage, at, service, layer, errors>>

Listed(place) ==
  IF place = Base THEN BaseServices ELSE Folders[place]

(* After a place: the next folder, or every service listed so far. *)
Onward(listed) ==
  IF at = Len(Folders)
  THEN /\ stage' = "services"
       /\ UNCHANGED at
       /\ service' = [s \in AllServices |->
                        IF s \in listed \/ service[s] = "listed"
                        THEN "queued" ELSE service[s]]
  ELSE /\ at' = at + 1
       /\ UNCHANGED stage
       /\ service' = [s \in AllServices |->
                        IF s \in listed THEN "listed" ELSE service[s]]

PlaceAnswers ==
  /\ stage = "places" /\ asking
  /\ asking' = FALSE
  /\ Release
  /\ Onward(Listed(at))
  /\ UNCHANGED <<engine, layer, errors>>

(* Mutant: a folder that fails is asked again. *)
PlaceFails_AsksAgain ==
  /\ stage = "places" /\ asking
  /\ asking' = FALSE
  /\ Release
  /\ \/ /\ at = Base /\ stage' = "gave up"
        /\ errors' = IF engine.safe THEN Append(errors, at) ELSE errors
     \/ at # Base /\ UNCHANGED <<stage, errors>>
  /\ UNCHANGED <<engine, at, service, layer>>

(* safe_crawl goes on without a folder; fetch_all_data returns the error.  *)
PlaceFails ==
  /\ stage = "places" /\ asking
  /\ asking' = FALSE
  /\ Release
  /\ \/ /\ engine.safe
        /\ errors' = Append(errors, at)
        /\ \/ at = Base /\ stage' = "gave up" /\ UNCHANGED <<at, service>>
           \/ at # Base /\ Onward({})
     \/ /\ ~engine.safe
        /\ stage' = "gave up"
        /\ UNCHANGED <<at, service, errors>>
  /\ UNCHANGED <<engine, layer>>

(* An entry of the listing has no name or no type: the KeyError goes to    *)
(* the crawl's caller, past the handlers, with the slot given back.        *)
PlaceBreaks ==
  /\ stage = "places" /\ asking
  /\ asking' = FALSE
  /\ Release
  /\ stage' = "raised"
  /\ UNCHANGED <<engine, at, service, layer, errors>>

-----------------------------------------------------------------------------

AskService(s) ==
  /\ service[s] = "queued"
  /\ Acquire
  /\ service' = [service EXCEPT ![s] = "root"]
  /\ UNCHANGED <<engine, stage, at, asking, layer, errors>>

FanOut(s) ==
  layer' = [x \in AllServices \X Layers |->
              IF x[1] = s THEN "queued" ELSE layer[x]]

(* The service's own metadata: the slot is given back before the layers    *)
(* are gathered.                                                           *)
ServiceAnswers(s) ==
  /\ service[s] = "root"
  /\ Release
  /\ service' = [service EXCEPT ![s] = "layers"]
  /\ FanOut(s)
  /\ UNCHANGED <<engine, stage, at, asking, errors>>

(* service_metadata raised: one error, and the service without metadata.   *)
(* fetch_all_data keeps it as the service's metadata.                      *)
Report(s) ==
  /\ service' = [service EXCEPT ![s] = "failed"]
  /\ errors' = IF engine.safe THEN Append(errors, s) ELSE errors

ServiceFails(s) ==
  /\ service[s] = "root"
  /\ Release
  /\ Report(s)
  /\ UNCHANGED <<engine, stage, at, asking, layer>>

-----------------------------------------------------------------------------

(* Mutant: the layers of a service are gathered without the semaphore. *)
AskLayer_Ungated(s, l) ==
  /\ layer[<<s, l>>] = "queued"
  /\ layer' = [layer EXCEPT ![<<s, l>>] = "metadata"]
  /\ free' = IF free > 0 THEN free - 1 ELSE free
  /\ UNCHANGED <<engine, stage, at, asking, service, errors>>

AskLayer(s, l) ==
  /\ layer[<<s, l>>] = "queued"
  /\ Acquire
  /\ layer' = [layer EXCEPT ![<<s, l>>] = "metadata"]
  /\ UNCHANGED <<engine, stage, at, asking, service, errors>>

(* The layer's metadata, and its feature count under the same slot. *)
LayerAnswers(s, l) ==
  /\ layer[<<s, l>>] = "metadata"
  /\ \/ /\ engine.counts
        /\ layer' = [layer EXCEPT ![<<s, l>>] = "count"]
        /\ UNCHANGED free
     \/ /\ layer' = [layer EXCEPT ![<<s, l>>] = "ok"]
        /\ Release
  /\ UNCHANGED <<engine, stage, at, asking, service, errors>>

(* The count came, or timed out as often as it may and is None. *)
CountEnds(s, l) ==
  /\ layer[<<s, l>>] = "count"
  /\ layer' = [layer EXCEPT ![<<s, l>>] = "ok"]
  /\ Release
  /\ UNCHANGED <<engine, stage, at, asking, service, errors>>

(* One of _CONTAINED_LAYER_ERRORS: the layer stays, with layer_error. *)
LayerContained(s, l) ==
  /\ layer[<<s, l>>] = "metadata"
  /\ layer' = [layer EXCEPT ![<<s, l>>] = "marked"]
  /\ Release
  /\ UNCHANGED <<engine, stage, at, asking, service, errors>>

(* Mutant: every escaping exception is reported, not the first. *)
LayerEscapes_EachReported(s, l) ==
  /\ layer[<<s, l>>] \in {"metadata", "count"}
  /\ layer' = [layer EXCEPT ![<<s, l>>] = "escaped"]
  /\ Release
  /\ Report(s)
  /\ UNCHANGED <<engine, stage, at, asking>>

(* Mutant: the slot is given back by the handler and by its block. *)
LayerEscapes_ReleasesTwice(s, l) ==
  /\ layer[<<s, l>>] \in {"metadata", "count"}
  /\ layer' = [layer EXCEPT ![<<s, l>>] = "escaped"]
  /\ free' = free + 2
  /\ \/ service[s] = "layers" /\ Report(s)
     \/ service[s] # "layers" /\ UNCHANGED <<service, errors>>
  /\ UNCHANGED <<engine, stage, at, asking>>

(* Any other exception of the metadata call, or one of the count that is   *)
(* not a timeout, goes through the gather to service_metadata's caller;    *)
(* when the gather is over already nobody gets it.                         *)
LayerEscapes(s, l) ==
  /\ layer[<<s, l>>] \in {"metadata", "count"}
  /\ layer' = [layer EXCEPT ![<<s, l>>] = "escaped"]
  /\ Release
  /\ \/ service[s] = "layers" /\ Report(s)
     \/ service[s] # "layers" /\ UNCHANGED <<service, errors>>
  /\ UNCHANGED <<engine, stage, at, asking>>

Settled == {"ok", "marked"}

(* Mutant: the gather ends with the first layer that does. *)
Gathered_First(s) ==
  /\ service[s] = "layers"
  /\ \E l \in Layers : layer[<<s, l>>] \in Settled
  /\ service' = [service EXCEPT ![s] = "done"]
  /\ UNCHANGED <<engine, stage, at, asking, layer, free, errors>>

Gathered(s) ==
  /\ service[s] = "layers"
  /\ \A l \in Layers : layer[<<s, l>>] \in Settled
  /\ service' = [service EXCEPT ![s] = "done"]
  /\ UNCHANGED <<engine, stage, at, asking, layer, free, errors>>

Return ==
  /\ stage = "services"
  /\ \A s \in AllServices : service[s] \in {"unknown", "done", "failed"}
  /\ stage' = "returned"
  /\ UNCHANGED <<engine, at, asking, service, layer, free, errors>>

LayerStep(s, l) ==
  \/ AskLayer(s, l) \/ LayerAnswers(s, l) \/ CountEnds(s, l)
  \/ LayerContained(s, l) \/ LayerEscapes(s, l)

ServiceStep(s) ==
  \/ AskService(s) \/ ServiceAnswers(s) \/ ServiceFails(s) \/ Gathered(s)

PlaceStep == AskPlace \/ PlaceAnswers \/ PlaceFails \/ PlaceBreaks

Quiet ==
  /\ stage \in {"returned", "gave up", "raised"}
  /\ \A s \in AllServices, l \in Layers :
       layer[<<s, l>>] \in {"none", "escaped"} \cup Settled

Next ==
  \/ PlaceStep \/ Return
  \/ \E s \in AllServices : ServiceStep(s) \/ \E l \in Layers : LayerStep(s, l)
  \/ Quiet /\ UNCHANGED vars

Spec == Init /\ [][Next]_vars

(* Requests end, and asyncio wakes a semaphore's waiters in turn: a task   *)
(* acquires once or twice in its life, so none can be passed over forever. *)
FairSpec ==
  /\ Spec
  /\ WF_vars(PlaceStep) /\ WF_vars(Return)
  /\ \A s \in AllServices :
       WF_vars(ServiceStep(s)) /\ \A l \in Layers : WF_vars(LayerStep(s, l))

-----------------------------------------------------------------------------
(* Properties *)

InFlight ==
  Cardinality({s \in AllServices : service[s] = "root"})
    + Cardinality({x \in AllServices \X Layers :
                     layer[x] \in {"metadata", "count"}})
    + (IF asking THEN 1 ELSE 0)

(* max_concurrent_requests holds for the crawl as a whole, the layers of   *)
(* services already given up included, and no slot is lost or invented.    *)
CapIsGlobal == InFlight + free = Slots

(* What safe_crawl returns accounts for every service it found: with its   *)
(* metadata, or with exactly one error.                                    *)
EveryServiceAccounted ==
  stage = "returned" /\ engine.safe =>
    /\ IsInjective(errors)
    /\ \A s \in AllServices :
         (service[s] = "failed") <=> (s \in ToSet(errors))
    /\ \A s \in AllServices :
         service[s] = "unknown" =>
           \E i \in ToSet(errors) \cap DOMAIN Folders : s \in Folders[i]

(* A service is returned with metadata only when each of its layers is     *)
(* there, with its own metadata or with a layer_error.                     *)
DoneServiceIsWhole ==
  \A s \in AllServices :
    service[s] = "done" => \A l \in Layers : layer[<<s, l>>] \in Settled

(* Every crawl comes to an end, with a report or an exception: the shared  *)
(* semaphore never has everyone waiting.                                   *)
CrawlReturns == <>(stage \in {"returned", "gave up", "raised"})

(* Whatever failed, in the end every slot is back.                         *)
SlotsComeBack == <>[](free = Slots)

(* CHANGELOG.md: "A single failing layer no longer discards a whole        *)
(* service's metadata", whether the layer's metadata fails or its count.   *)
CountFailureKeepsService ==
  [][\A s \in AllServices, l \in Layers :
       layer[<<s, l>>] = "count" /\ layer'[<<s, l>>] = "escaped"
       => service'[s] # "failed"]_vars
=============================================================================
