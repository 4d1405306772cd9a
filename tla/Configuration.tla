---------------------------- MODULE Configuration ----------------------------
(***************************************************************************)
(* restgdf's process-wide configuration: the environment variables, the    *)
(* Config they resolve to, the deprecated Settings built from it, the      *)
(* cache of each, their resets, and the token sessions made from it.       *)
(*                                                                         *)
(* A number is kept as its double, so that odd ones are fractions.         *)
(***************************************************************************)
EXTENDS Integers, Sequences

CONSTANTS
  Fields,       \* fields of Config, each with an environment variable
  Aliased,      \* those with a deprecated variable too; Settings shows these
  Unread,       \* those that validate but that no live code path reads
  Listed,       \* those in the table of the ones to warn of, _INERT_ENV_KEYS
  Whole,        \* numbers read with int()
  Words,        \* fields that are not numbers
  Positive,     \* numbers that may not be 0
  Cut,          \* numbers that Settings shows through int()
  TokenUrl,     \* the field a token session takes its address from
  Unfit,        \* addresses that Config accepts and a token session refuses
  Default,      \* value of each field without a variable
  DefaultChunk, \* the same for Settings.chunk_size
  Rank,         \* order in which the deprecated variables are looked at
  Numbers,      \* numbers a variable may hold, doubled
  Junk,         \* a text that is no number, or no word the field accepts
  Infinite,     \* the text inf
  Unset,        \* no such variable
  None,         \* an empty cache
  StartEnvs,    \* environments the process may start in
  MaxEdits,     \* bound on changes of the environment
  MaxSessions   \* bound on token sessions made

Texts == Numbers \cup {Junk, Infinite}
Values == Nat \cup Texts

Shims == [shown : [Aliased -> Values], chunk : Values]

Variables == [new : [Fields -> Texts \cup {Unset}],
              old : [Aliased -> Texts \cup {Unset}],
              chunk : Texts \cup {Unset},
              backend : BOOLEAN]

ASSUME ConfigAssumption ==
  /\ Aliased \subseteq Fields
  /\ TokenUrl \in Aliased /\ Default[TokenUrl] \notin Unfit
  /\ Numbers \subseteq Nat
  /\ Junk \notin Nat /\ Infinite \notin Nat /\ Junk # Infinite
  /\ Unset \notin Values
  /\ Cut \cap (Words \cup Positive) = {}
  /\ Default \in [Fields -> Nat]
  /\ \A f \in Fields : /\ f \in Positive => Default[f] # 0
                       /\ f \in Cut => Default[f] % 2 = 0
  /\ DefaultChunk \in Nat
  /\ None \notin [Fields -> Values]
  /\ None \notin Shims
  /\ StartEnvs \subseteq Variables
  /\ MaxEdits \in Nat /\ MaxSessions \in Nat

VARIABLES
  env,       \* os.environ
  config,    \* what get_config has cached, or None
  settings,  \* what get_settings has cached, or None
  sessions,  \* address of each token session made from the configuration
  answer,    \* how the last call ended
  edits,     \* changes of the environment so far
  \* History: it is in no guard.
  configFrom, settingsFrom,  \* the environment each cached value was read from
  since,     \* environments since the last reset
  older,     \* sessions made before the last reset
  heard      \* what warnings have said since the last reset

history == <<configFrom, settingsFrom, since, older, heard>>
vars == <<env, config, settings, sessions, answer, edits, history>>

-----------------------------------------------------------------------------
(* Config.from_env *)

IsWhole(t) == t \in Numbers /\ t % 2 = 0

\* The caster of the field takes the text.
Casts(f, t) == f \in Words \/ (t # Junk /\ (f \in Whole => IsWhole(t)))

\* The section model takes the value: a known word or address, in range.
WellFormed(v) == v # Junk
InRange(f, v) == f \in Positive => v # 0
Valid(f, v) == WellFormed(v) /\ InRange(f, v)

\* A deprecated variable counts only while the new one is not set.
Counts(e, f) == f \in Aliased /\ e.old[f] # Unset /\ e.new[f] = Unset

Value(e, f) == IF e.new[f] # Unset THEN e.new[f]
               ELSE IF Counts(e, f) THEN e.old[f] ELSE Default[f]

Resolved(e) == [f \in Fields |-> Value(e, f)]

BadNew(e) == {f \in Fields : e.new[f] # Unset /\ ~Casts(f, e.new[f])}
BadOld(e) == {f \in Aliased : Counts(e, f) /\ ~Casts(f, e.old[f])}

Resolves(e) == /\ BadNew(e) = {} /\ BadOld(e) = {}
               /\ \A f \in Fields : Valid(f, Value(e, f))

\* The variables of the table that are set.
InertSet(e) == {f \in Fields \cap Listed : e.new[f] # Unset}

\* What is said of a deprecated variable: that there is a new name for it, or
\* that the new name is set and this one ignored.
OldWarning(e, f) == <<IF Counts(e, f) THEN "old" ELSE "overruled", f>>

\* Mutant: a deprecated variable that the new one overrides is passed over.
WarnedOf_CountedOnly(e) ==
  {OldWarning(e, f) : f \in {g \in Aliased : Counts(e, g)}}
  \cup {<<"inert", f>> : f \in InertSet(e)}
  \cup {n \in {<<"dead", "backend">>} : e.backend}

\* What the warnings of one resolution say, each of one variable; it stops at
\* the first text it cannot cast.
WarnedOf(e) ==
  LET reached == {f \in Aliased : \A g \in BadOld(e) : Rank[f] <= Rank[g]}
      olds == {OldWarning(e, f) : f \in {g \in reached : e.old[g] # Unset}}
      inert == {<<"inert", f>> : f \in InertSet(e)}
      backend == {n \in {<<"dead", "backend">>} : e.backend}
  IN CASE BadNew(e) # {} -> {}
       [] BadNew(e) = {} /\ BadOld(e) # {} -> olds
       [] OTHER -> olds \cup inert \cup backend

-----------------------------------------------------------------------------
(* Settings *)

Truncated(v) == IF v = Infinite THEN v ELSE v - (v % 2)

ChunkReads(e) == e.chunk = Unset \/ (IsWhole(e.chunk) /\ e.chunk # 0)

ChunkOf(e) == IF e.chunk = Unset THEN DefaultChunk ELSE e.chunk

\* Mutants: every number goes through int(); its own variable is forgotten.
ShimOf_CutsAll(c, e) ==
  [shown |-> [f \in Aliased |-> IF f \in Words THEN c[f] ELSE Truncated(c[f])],
   chunk |-> ChunkOf(e)]
ShimOf_DefaultChunk(c, e) ==
  [shown |-> [f \in Aliased |-> IF f \in Cut THEN Truncated(c[f]) ELSE c[f]],
   chunk |-> DefaultChunk]

ShimOf(c, e) ==
  [shown |-> [f \in Aliased |-> IF f \in Cut THEN Truncated(c[f]) ELSE c[f]],
   chunk |-> ChunkOf(e)]

\* int() of an infinite number raises, outside every try.
ShimOverflows(c) == \E f \in Cut \cap Aliased : c[f] = Infinite

ShimAccepts(c, e) ==
  /\ ~ShimOverflows(c) /\ ChunkReads(e)
  /\ \A f \in Aliased : Valid(f, ShimOf(c, e).shown[f])

\* Settings.from_env, which knows the deprecated variables only.
LegacySettings(e) ==
  LET value(f) == IF e.old[f] # Unset THEN e.old[f] ELSE Default[f]
      reads == \A f \in Aliased :
                 e.old[f] # Unset =>
                   Casts(f, e.old[f]) /\ (f \in Cut => IsWhole(e.old[f]))
  IN IF reads /\ ChunkReads(e) /\ \A f \in Aliased : Valid(f, value(f))
     THEN [shown |-> [f \in Aliased |-> value(f)], chunk |-> ChunkOf(e)]
     ELSE None

-----------------------------------------------------------------------------
(* Reads *)

Init ==
  /\ env \in StartEnvs /\ edits = 0
  /\ config = None /\ settings = None /\ sessions = <<>>
  /\ answer = [call |-> "config", end |-> "none"]
  /\ configFrom = env /\ settingsFrom = env /\ since = {env}
  /\ older = 0 /\ heard = {}

\* What get_config returns now, or None when it raises.
ConfigNow == IF config # None THEN config
             ELSE IF Resolves(env) THEN Resolved(env) ELSE None

\* Mutant: the cache follows the environment.
ReadConfig_Refreshes ==
  /\ config' = IF Resolves(env) THEN Resolved(env) ELSE config
  /\ configFrom' = IF Resolves(env) THEN env ELSE configFrom
  /\ heard' = heard \cup WarnedOf(env)

\* A read of get_config: the cache is filled unless the resolution fails.
ReadConfig ==
  /\ config' = ConfigNow
  /\ configFrom' = IF config = None /\ ConfigNow # None THEN env ELSE configFrom
  /\ heard' = IF config = None THEN heard \cup WarnedOf(env) ELSE heard

Ends(call, end) == answer' = [call |-> call, end |-> end]

GetConfig ==
  /\ ReadConfig
  /\ Ends("config", IF ConfigNow = None THEN "refused" ELSE "given")
  /\ UNCHANGED <<env, edits, settings, settingsFrom, sessions, since, older>>

\* get_settings reads get_config, then two variables of its own.
SettingsGiven ==
  /\ IF settings # None
       THEN UNCHANGED <<config, settings, configFrom, settingsFrom, heard>>
       ELSE /\ ReadConfig
            /\ ConfigNow # None /\ ShimAccepts(ConfigNow, env)
            /\ settings' = ShimOf(ConfigNow, env) /\ settingsFrom' = env
  /\ Ends("settings", "given")
  /\ UNCHANGED <<env, edits, sessions, since, older>>

\* It raises, and what get_config has cached on the way stays.
SettingsRefused ==
  /\ settings = None
  /\ ReadConfig
  /\ ConfigNow # None => ~ShimAccepts(ConfigNow, env)
  /\ Ends("settings", IF ConfigNow # None /\ ShimOverflows(ConfigNow)
                        THEN "overflow" ELSE "refused")
  /\ UNCHANGED <<env, edits, settings, settingsFrom, sessions, since, older>>

\* TokenSessionConfig.from_auth_config, which has its own idea of an address:
\* Config takes the scheme in capitals, a session does not.
AddressOf(c) == c[TokenUrl]
SessionAccepts(c) == AddressOf(c) \notin Unfit

\* Mutant: the session reads the environment itself.
MakeSession_ReadsEnv ==
  /\ Len(sessions) < MaxSessions
  /\ ReadConfig
  /\ \/ /\ ConfigNow # None /\ SessionAccepts(ConfigNow)
        /\ sessions' = Append(sessions, Value(env, TokenUrl))
        /\ Ends("session", "given")
     \/ /\ ConfigNow # None => ~SessionAccepts(ConfigNow)
        /\ sessions' = sessions
        /\ Ends("session", "refused")
  /\ UNCHANGED <<env, edits, settings, settingsFrom, since, older>>

\* ArcGISTokenSession.from_config without a config of its own. A refusal
\* leaves the Config that was read in its cache.
MakeSession ==
  /\ Len(sessions) < MaxSessions
  /\ ReadConfig
  /\ \/ /\ ConfigNow # None /\ SessionAccepts(ConfigNow)
        /\ sessions' = Append(sessions, AddressOf(ConfigNow))
        /\ Ends("session", "given")
     \/ /\ ConfigNow # None => ~SessionAccepts(ConfigNow)
        /\ sessions' = sessions
        /\ Ends("session", "refused")
  /\ UNCHANGED <<env, edits, settings, settingsFrom, since, older>>

-----------------------------------------------------------------------------
(* Resets, and the world outside *)

\* Either reset empties both caches.
Forget ==
  /\ since' = {env} /\ older' = Len(sessions) /\ heard' = {}
  /\ UNCHANGED <<env, edits, sessions, answer, configFrom, settingsFrom>>

\* Mutants: each reset empties its own cache only.
ResetConfig_KeepsSettings == config' = None /\ Forget /\ UNCHANGED settings
ResetSettings_KeepsConfig == settings' = None /\ Forget /\ UNCHANGED config

ResetConfig == config' = None /\ settings' = None /\ Forget
ResetSettings == settings' = None /\ config' = None /\ Forget

\* The environments one change away.
Edited(e) == {[e EXCEPT !.new[f] = t] : f \in Fields, t \in Texts \cup {Unset}}
        \cup {[e EXCEPT !.old[f] = t] : f \in Aliased, t \in Texts \cup {Unset}}
        \cup {[e EXCEPT !.chunk = t] : t \in Texts \cup {Unset}}
        \cup {[e EXCEPT !.backend = ~e.backend]}

ChangeEnv ==
  /\ edits < MaxEdits /\ edits' = edits + 1
  /\ env' \in Edited(env) \ {env}
  /\ since' = since \cup {env'}
  /\ UNCHANGED <<config, settings, sessions, answer, configFrom, settingsFrom,
                 older, heard>>

Next == \/ GetConfig \/ SettingsGiven \/ SettingsRefused \/ MakeSession
        \/ ResetConfig \/ ResetSettings \/ ChangeEnv

Spec == Init /\ [][Next]_vars

-----------------------------------------------------------------------------
(* Properties *)

\* Every variable holds a value of its type; a cached value is of its model.
TypeOK ==
  /\ env \in Variables /\ edits \in 0..MaxEdits
  /\ config \in [Fields -> Values] \cup {None}
  /\ settings \in Shims \cup {None}
  /\ sessions \in Seq(Values) /\ Len(sessions) <= MaxSessions
  /\ answer \in [call : {"config", "settings", "session"},
                 end : {"none", "given", "refused", "overflow"}]
  /\ configFrom \in Variables /\ settingsFrom \in Variables
  /\ since \subseteq Variables /\ older \in 0..Len(sessions)

\* Two caches of one environment never contradict each other: while Settings is
\* cached, so is the Config it was made from, and both show the same values
\* (_models/_settings.py:272, and each reset clearing the other's cache).
SettingsFollowConfig ==
  settings # None =>
    /\ config # None
    /\ \A f \in Aliased :
         settings.shown[f] =
           IF f \in Cut THEN Truncated(config[f]) ELSE config[f]

\* Nothing read before a reset is given out after it: what is cached was read
\* from an environment that has existed since the last reset of either cache
\* (_config.py:658, _models/_settings.py:310).
ResetIsComplete ==
  /\ config # None => configFrom \in since
  /\ settings # None => configFrom \in since /\ settingsFrom \in since

\* What a Config was resolved from has been told as it is: a variable under its
\* new name has decided its field, and is named inert if the table lists it; a
\* deprecated one has decided its field and was named as such, or was named as
\* overruled by a new one that is set; the backend was named. It says nothing of
\* a field that is not in the table, read or not (_config.py:568-625).
WarningsAreGiven ==
  config # None =>
    /\ \A f \in Fields : configFrom.new[f] # Unset =>
         /\ config[f] = configFrom.new[f]
         /\ f \in Listed => <<"inert", f>> \in heard
    /\ \A f \in Aliased : configFrom.old[f] # Unset =>
         \/ config[f] = configFrom.old[f] /\ <<"old", f>> \in heard
         \/ configFrom.new[f] # Unset /\ <<"overruled", f>> \in heard
    /\ configFrom.backend => <<"dead", "backend">> \in heard

\* What _config.py:603-605 says: a field that validates and that nothing reads is
\* "a silent lie", so that every such variable that is set is named by a warning.
\* Known to fail: the table leaves out timeout.connect_s and timeout.read_s
\* (utils/_http.py:240 reads total_s only) and telemetry.service_name.
UnreadIsHeardOf ==
  config # None =>
    \A f \in Unread : configFrom.new[f] # Unset => <<"inert", f>> \in heard

\* All token sessions made from the configuration since the last reset have one
\* address, that of the cached Config, whatever happened to the environment
\* (utils/token.py:210-215).
SessionsAgree ==
  \A i \in (older + 1)..Len(sessions) :
    config # None /\ sessions[i] = config[TokenUrl]

\* Once a Config is there, only the variables that Settings reads itself, or a
\* number int() cannot hold, can make get_settings fail: what one model has
\* accepted the other accepts too.
ShimFailsOnItsOwn ==
  config # None =>
    \/ ShimAccepts(config, env)
    \/ ShimOverflows(config)
    \/ ~ChunkReads(env)

\* Code that still reads Settings.from_env and code that reads get_settings see
\* the same in an environment of deprecated names and whole numbers.
LegacyReadersAgree ==
  (/\ \A f \in Fields : env.new[f] = Unset
   /\ \A f \in Cut \cap Aliased :
        env.old[f] \in Numbers => IsWhole(env.old[f])) =>
  LegacySettings(env) =
    IF Resolves(env) /\ ShimAccepts(Resolved(env), env)
    THEN ShimOf(Resolved(env), env) ELSE None

\* The two caches, and the sessions made from them, agree with one another and
\* with an environment that is not from before the last reset, whatever was
\* edited, refused or reset in between (_models/_settings.py:254-320).
CachesAgree == SettingsFollowConfig /\ ResetIsComplete /\ SessionsAgree

\* The three ways to read the configuration give the same answer wherever they
\* overlap, and one does not fail where another has succeeded.
ReadersAgree == ShimFailsOnItsOwn /\ LegacyReadersAgree

\* A Config, once given out, is the one every caller gets until a reset: no
\* failure and no change of the environment replaces it (_config.py:647).
ConfigIsKept ==
  [][config # None =>
       config' = config \/ (config' = None /\ settings' = None)]_vars
=============================================================================
