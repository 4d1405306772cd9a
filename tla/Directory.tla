------------------------------ MODULE Directory ------------------------------
(***************************************************************************)
(* The Directory client (restgdf/directory/directory.py): a cache of what  *)
(* crawls have found, which any number of tasks may ask for at once.       *)
(*                                                                         *)
(* A crawl itself (safe_crawl, module Crawl) is one request here: between  *)
(* the look into the cache and the assignments that follow the crawl, the  *)
(* other tasks run.                                                        *)
(*                                                                         *)
(* No name here is one of Crawl's, so that a module can extend both.       *)
(***************************************************************************)
EXTENDS Naturals, FiniteSets

CONSTANTS
  Tasks,       \* callers of one Directory
  Services,    \* services that a crawl may find
  LayersOf,    \* layers of each service, each with its type
  None,        \* an attribute that has not been set
  MaxCrawls    \* bound on the crawls started

\* A crawl finds each service or not, and gets its metadata or not.
Found == [Services -> {"absent", "bare", "full"}]
Reports == [number : 1..MaxCrawls, counted : BOOLEAN, found : Found]

ASSUME DirectoryAssumption ==
  /\ MaxCrawls \in Nat \ {0}
  /\ DOMAIN LayersOf = Services
  /\ IsFiniteSet(Tasks)
  /\ None \notin Reports

VARIABLES
  services,   \* the report whose services the attribute lists, or None
  counted,    \* the same for services_with_feature_count
  report,     \* the report attribute
  metadata,   \* whether prep has run
  fromUrl,    \* whether from_url made it
  usable,     \* whether the caller has been given the Directory
  call,       \* what each task is waiting for
  answer,     \* what the last crawl call of each task has returned
  \* History: only the bound uses it.
  finished,   \* every report there has been
  overlapped  \* whether two crawls were ever out at once

directoryVars == <<services, counted, report, metadata, fromUrl, usable, call,
                   answer, finished, overlapped>>

\* __init__, by the caller or by from_url, which goes on to prep.
DirectoryInit ==
  /\ services = None /\ counted = None /\ report = None /\ metadata = FALSE
  /\ fromUrl \in BOOLEAN /\ usable = ~fromUrl
  /\ \/ ~fromUrl /\ call = [t \in Tasks |-> "idle"]
     \/ /\ fromUrl
        /\ \E b \in Tasks :
             call = [t \in Tasks |-> IF t = b THEN "prep" ELSE "idle"]
  /\ answer = [t \in Tasks |-> None]
  /\ finished = {} /\ overlapped = FALSE

-----------------------------------------------------------------------------
(* prep *)

Prep(t) ==
  /\ usable /\ call[t] = "idle"
  /\ call' = [call EXCEPT ![t] = "prep"]
  /\ UNCHANGED <<fromUrl, services, counted, report, metadata, usable, answer,
                 finished, overlapped>>

\* from_url returns the Directory only now.
PrepAnswers(t) ==
  /\ call[t] = "prep"
  /\ call' = [call EXCEPT ![t] = "idle"]
  /\ metadata' = TRUE /\ usable' = TRUE
  /\ UNCHANGED <<fromUrl, services, counted, report, answer, finished,
                 overlapped>>

\* Mutant: the Directory is handed out all the same.
PrepFails_StillUsable(t) ==
  /\ call[t] = "prep"
  /\ call' = [call EXCEPT ![t] = "idle"]
  /\ usable' = TRUE
  /\ UNCHANGED <<services, counted, report, metadata, fromUrl, answer,
                 finished, overlapped>>

PrepFails(t) ==
  /\ call[t] = "prep"
  /\ call' = [call EXCEPT ![t] = "idle"]
  /\ UNCHANGED <<fromUrl, services, counted, report, metadata, usable, answer,
                 finished, overlapped>>

-----------------------------------------------------------------------------
(* crawl *)

Crawling == {t \in Tasks : call[t] \in {"plain", "counts"}}

Kind(withCounts) == IF withCounts THEN "counts" ELSE "plain"

\* Mutant: lists without services do not count as cached.
CacheOf_NotEmpty(withCounts) ==
  LET cached == IF withCounts THEN counted ELSE services
  IN IF cached # None /\ \A s \in Services : cached.found[s] = "absent"
     THEN None ELSE cached

CacheOf(withCounts) == IF withCounts THEN counted ELSE services

\* The cache answers at once; a counting call points services back to it.
CrawlCached(t, withCounts) ==
  /\ usable /\ call[t] = "idle"
  /\ CacheOf(withCounts) # None
  /\ services' = CacheOf(withCounts)
  /\ answer' = [answer EXCEPT ![t] = CacheOf(withCounts)]
  /\ UNCHANGED <<fromUrl, counted, report, metadata, usable, call, finished,
                 overlapped>>

CrawlAsks(t, withCounts) ==
  /\ usable /\ call[t] = "idle"
  /\ CacheOf(withCounts) = None
  /\ Cardinality(finished) + Cardinality(Crawling) < MaxCrawls
  /\ call' = [call EXCEPT ![t] = Kind(withCounts)]
  /\ overlapped' = (overlapped \/ Crawling # {})
  /\ UNCHANGED <<fromUrl, services, counted, report, metadata, usable, answer,
                 finished>>

\* Mutants: a crawl leaves services alone once they are there; every crawl fills
\* the counts; a counting crawl fills nothing else.
Store_LeavesServices(new) ==
  /\ report' = new
  /\ counted' = IF new.counted THEN new ELSE counted
  /\ services' = IF services = None THEN new ELSE services
Store_FillsBoth(new) == report' = new /\ counted' = new /\ services' = new
Store_CountsOnly(new) ==
  /\ report' = new
  /\ counted' = IF new.counted THEN new ELSE counted
  /\ services' = IF new.counted THEN services ELSE new

Store(new) ==
  /\ report' = new
  /\ counted' = IF new.counted THEN new ELSE counted
  /\ services' = new

\* safe_crawl has returned.  A base that failed is a report without services.
CrawlAnswers(t) ==
  /\ t \in Crawling
  /\ \E found \in Found :
       LET new == [number |-> Cardinality(finished) + 1,
                   counted |-> call[t] = "counts", found |-> found]
       IN /\ Store(new)
          /\ answer' = [answer EXCEPT ![t] = new]
          /\ finished' = finished \cup {new}
  /\ call' = [call EXCEPT ![t] = "idle"]
  /\ UNCHANGED <<metadata, usable, fromUrl, overlapped>>

\* Mutant: a failed crawl forgets what the others have found.
CrawlRaises_Forgets(t) ==
  /\ t \in Crawling
  /\ call' = [call EXCEPT ![t] = "idle"]
  /\ services' = None /\ counted' = None
  /\ UNCHANGED <<report, metadata, usable, fromUrl, answer, finished,
                 overlapped>>

\* safe_crawl raises, or the task is cancelled.
CrawlRaises(t) ==
  /\ t \in Crawling
  /\ call' = [call EXCEPT ![t] = "idle"]
  /\ UNCHANGED <<fromUrl, services, counted, report, metadata, usable, answer,
                 finished, overlapped>>

DirectoryNext == \E t \in Tasks :
          \/ Prep(t) \/ PrepAnswers(t) \/ PrepFails(t)
          \/ \E withCounts \in BOOLEAN :
               CrawlCached(t, withCounts) \/ CrawlAsks(t, withCounts)
          \/ CrawlAnswers(t) \/ CrawlRaises(t)

DirectorySpec == DirectoryInit /\ [][DirectoryNext]_directoryVars

-----------------------------------------------------------------------------
(* filter_directory_layers, feature_layers and rasters *)

\* Nothing to filter before the first crawl.
FilterRaises == services = None

\* The layers of one type, of the services that have their metadata.
Filtered(type) ==
  UNION {{l \in LayersOf[s] : l.type = type} :
           s \in {x \in Services : services.found[x] = "full"}}

-----------------------------------------------------------------------------
(* Properties *)

\* Every attribute is unset or shows a report.
DirectoryTypeOK ==
  /\ {services, counted, report} \subseteq Reports \cup {None}
  /\ metadata \in BOOLEAN /\ fromUrl \in BOOLEAN /\ usable \in BOOLEAN
  /\ overlapped \in BOOLEAN
  /\ call \in [Tasks -> {"idle", "prep", "plain", "counts"}]
  /\ answer \in [Tasks -> Reports \cup {None}]
  /\ finished \subseteq Reports

\* The attributes tell one story as long as crawls come one after another:
\* services, and report when set, are of the same crawl, and no later plain
\* crawl hides counts that are known (directory.py:170-192).
OneCrawlAtATimeAgrees ==
  ~overlapped => services = report /\ (counted # None => services = counted)

\* services_with_feature_count comes from a crawl that counted, even when
\* plain crawls finish in between (directory.py:179).
CountsAreCounted == counted # None => counted.counted /\ counted \in finished

\* At most one crawl of each kind is ever made, one without overlap: also when
\* it has found nothing because its base had failed (directory.py:171, 183).
OneCrawlOfEachKind ==
  ~overlapped => \A r, s \in finished : r.counted = s.counted => r = s

\* Whoever has been given a list may filter: the filter never raises once any
\* call to crawl has returned, and lists nothing but layers that some crawl has
\* seen with their metadata (directory.py:219).
FilterServesCallers ==
  /\ (\E t \in Tasks : answer[t] # None) => ~FilterRaises
  /\ ~FilterRaises =>
       \A l \in Filtered("Feature Layer") :
         \E r \in finished, s \in Services :
           l \in LayersOf[s] /\ r.found[s] = "full"

\* Nobody gets a Directory from from_url before it has its metadata, and so
\* nobody crawls one (directory.py:101-103).
PreparedBeforeUse ==
  fromUrl /\ (usable \/ Crawling # {} \/ finished # {}) => metadata

\* The attributes of a Directory belong together, and to somebody's crawl, for
\* any order in which crawls with and without counts, failures and preparations
\* come back (directory.py:170-192).
AttributesAgree ==
  /\ OneCrawlAtATimeAgrees /\ CountsAreCounted
  /\ OneCrawlOfEachKind /\ FilterServesCallers /\ PreparedBeforeUse

\* A filled cache settles: once no crawl that could fill it again is out, the
\* counts are final, and services changes only by being pointed to the counts.
CacheSettles ==
  [][/\ counted # None /\ (\A t \in Tasks : call[t] # "counts") =>
          counted' = counted
     /\ services # None /\ Crawling = {} =>
          services' \in {services, counted}]_directoryVars
=============================================================================
