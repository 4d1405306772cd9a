------------------------- MODULE Configuration_proofs -------------------------
(***************************************************************************)
(* Proofs about Configuration, for every set of fields and variables, and  *)
(* any number of edits and sessions.                                       *)
(***************************************************************************)
EXTENDS Configuration, SequenceTheorems, TLAPS

(* A cached Config is what its environment resolves to, and all that had   *)
(* to be said about that environment has been said.                        *)
ConfigInv ==
  /\ env \in since
  /\ config # None =>
       /\ configFrom \in since
       /\ Resolves(configFrom) /\ config = Resolved(configFrom)
       /\ WarnedOf(configFrom) \subseteq heard

(* A cached Settings is made of the cached Config. *)
SettingsInv ==
  settings # None =>
    /\ config # None /\ settingsFrom \in since
    /\ settings = ShimOf(config, settingsFrom)

IInv == TypeOK /\ ConfigInv /\ SettingsInv /\ SessionsAgree

-----------------------------------------------------------------------------
(* What the resolution returns *)

(* A resolved environment is a Config without junk in it. *)
LEMMA ResolvedType ==
  ASSUME NEW e \in Variables, Resolves(e)
  PROVE  /\ Resolved(e) \in [Fields -> Values]
         /\ \A f \in Fields : Valid(f, Resolved(e)[f])
         /\ Resolved(e) # None
<1>1. \A f \in Fields : e.new[f] \in Texts \cup {Unset}
  BY DEF Variables
<1>2. \A f \in Aliased : e.old[f] \in Texts \cup {Unset}
  BY DEF Variables
<1>3. \A f \in Fields : Value(e, f) \in Values
  BY <1>1, <1>2, ConfigAssumption DEF Value, Counts, Values
<1>4. \A f \in Fields : Valid(f, Value(e, f))
  BY DEF Resolves
<1>5. QED
  BY <1>3, <1>4, ConfigAssumption DEF Resolved

(* int() of a number that is neither junk nor infinite. *)
LEMMA TruncatedType ==
  \A v \in Values \ {Junk} :
    Truncated(v) \in Values /\ Truncated(v) # Junk
<1>1. \A v \in Nat : v - (v % 2) \in Nat
  OBVIOUS
<1>2. QED
  BY <1>1, ConfigAssumption DEF Truncated, Values, Texts

(* Settings made of a valid Config are of their model. *)
LEMMA ShimType ==
  ASSUME NEW c \in [Fields -> Values], NEW e \in Variables,
         \A f \in Fields : Valid(f, c[f])
  PROVE  ShimOf(c, e) \in Shims /\ ShimOf(c, e) # None
<1>1. \A f \in Aliased : c[f] \in Values \ {Junk}
  BY ConfigAssumption DEF Valid, WellFormed
<1>2. ChunkOf(e) \in Values
  BY ConfigAssumption DEF ChunkOf, Variables, Values
<1>3. QED
  BY <1>1, <1>2, TruncatedType, ConfigAssumption DEF ShimOf, Shims

(* A resolution that succeeds has said of every variable what it owes it.  *)
LEMMA WarnedOfResolved ==
  ASSUME NEW e, Resolves(e)
  PROVE  /\ \A f \in Fields \cap Listed :
              e.new[f] # Unset => <<"inert", f>> \in WarnedOf(e)
         /\ \A f \in Aliased :
              e.old[f] # Unset =>
                <<IF e.new[f] = Unset THEN "old" ELSE "overruled", f>> \in WarnedOf(e)
         /\ e.backend => <<"dead", "backend">> \in WarnedOf(e)
<1>1. BadNew(e) = {} /\ BadOld(e) = {}
  BY DEF Resolves
<1> DEFINE olds == {OldWarning(e, f) : f \in {g \in Aliased : e.old[g] # Unset}}
           inert == {<<"inert", f>> : f \in InertSet(e)}
           backend == {n \in {<<"dead", "backend">>} : e.backend}
<1>2. {f \in Aliased : \A g \in BadOld(e) : Rank[f] <= Rank[g]} = Aliased
  BY <1>1
<1>3. WarnedOf(e) = olds \cup inert \cup backend
  BY <1>1, <1>2 DEF WarnedOf
<1>4. \A f \in Aliased : e.old[f] # Unset =>
        OldWarning(e, f) = <<IF e.new[f] = Unset THEN "old" ELSE "overruled", f>>
  BY DEF OldWarning, Counts
<1>5. \A f \in Aliased : e.old[f] # Unset => OldWarning(e, f) \in WarnedOf(e)
  BY <1>3
<1>6. QED
  BY <1>3, <1>4, <1>5 DEF InertSet

-----------------------------------------------------------------------------
(* The invariant *)

LEMMA InitEstablishes == Init => IInv
<1> SUFFICES ASSUME Init PROVE IInv
  OBVIOUS
<1>1. Len(sessions) = 0 /\ sessions \in Seq(Values)
  BY DEF Init
<1>2. TypeOK
  BY <1>1, ConfigAssumption DEF Init, TypeOK
<1>3. ConfigInv /\ SettingsInv
  BY DEF Init, ConfigInv, SettingsInv
<1>4. SessionsAgree
  BY <1>1 DEF Init, SessionsAgree
<1>5. QED
  BY <1>2, <1>3, <1>4 DEF IInv

(* A read of get_config keeps what the invariant says of the Config, and   *)
(* replaces none that is there.                                            *)
LEMMA ReadKeeps ==
  ASSUME IInv, ReadConfig, UNCHANGED <<env, since>>
  PROVE  /\ ConfigInv'
         /\ config' \in [Fields -> Values] \cup {None}
         /\ configFrom' \in Variables
         /\ config # None => config' = config
         /\ config' # None => \A f \in Fields : Valid(f, config'[f])
<1>1. CASE config # None
  BY <1>1, ResolvedType
  DEF IInv, TypeOK, ConfigInv, ReadConfig, ConfigNow
<1>2. CASE config = None /\ Resolves(env)
  <2>1. Resolved(env) # None /\ Resolved(env) \in [Fields -> Values]
    BY <1>2, ResolvedType DEF IInv, TypeOK
  <2>2. /\ config' = Resolved(env) /\ configFrom' = env
        /\ heard' = heard \cup WarnedOf(env)
    BY <1>2, <2>1 DEF ReadConfig, ConfigNow
  <2>3. Resolves(configFrom') /\ config' = Resolved(configFrom')
    BY <1>2, <2>2
  <2>4. WarnedOf(configFrom') \subseteq heard'
    BY <2>2
  <2>5. ConfigInv'
    BY <2>2, <2>3, <2>4 DEF IInv, ConfigInv
  <2>6. QED
    BY <1>2, <2>1, <2>2, <2>5, ResolvedType DEF IInv, TypeOK
<1>3. CASE config = None /\ ~Resolves(env)
  BY <1>3 DEF IInv, TypeOK, ConfigInv, ReadConfig, ConfigNow
<1>4. QED
  BY <1>1, <1>2, <1>3

(* A step that makes no session and keeps a Config that is there.          *)
LEMMA SessionsUnmoved ==
  ASSUME IInv, UNCHANGED <<sessions, older>>, config # None => config' = config
  PROVE  SessionsAgree'
BY DEF IInv, SessionsAgree

(* Settings stay when the Config they are made of does. *)
LEMMA SettingsUnmoved ==
  ASSUME IInv, UNCHANGED <<settings, settingsFrom>>, since \subseteq since',
         config # None => config' = config
  PROVE  SettingsInv'
BY DEF IInv, SettingsInv

LEMMA GetConfigStep ==
  ASSUME IInv, GetConfig
  PROVE  IInv'
<1>1. ReadConfig /\ UNCHANGED <<env, edits, settings, settingsFrom, sessions,
                                since, older>>
  BY DEF GetConfig
<1>2. TypeOK'
  BY <1>1, ReadKeeps DEF IInv, TypeOK, GetConfig, Ends
<1>3. QED
  BY <1>1, <1>2, ReadKeeps, SessionsUnmoved, SettingsUnmoved DEF IInv

LEMMA SettingsGivenStep ==
  ASSUME IInv, SettingsGiven
  PROVE  IInv'
<1>1. CASE settings # None
  <2>1. UNCHANGED <<env, edits, config, settings, configFrom, settingsFrom,
                    heard, sessions, since, older>>
    BY <1>1 DEF SettingsGiven
  <2>2. TypeOK'
    BY <2>1 DEF IInv, TypeOK, SettingsGiven, Ends
  <2>3. ConfigInv'
    BY <2>1 DEF IInv, ConfigInv
  <2>4. QED
    BY <2>1, <2>2, <2>3, SessionsUnmoved, SettingsUnmoved DEF IInv
<1>2. CASE settings = None
  <2>1. /\ ReadConfig /\ ConfigNow # None
        /\ settings' = ShimOf(ConfigNow, env) /\ settingsFrom' = env
        /\ UNCHANGED <<env, edits, sessions, since, older>>
    BY <1>2 DEF SettingsGiven
  <2>2. config' = ConfigNow /\ config' # None
    BY <2>1 DEF ReadConfig
  <2>3. config' \in [Fields -> Values] /\ \A f \in Fields : Valid(f, config'[f])
    BY <2>1, <2>2, ReadKeeps
  <2>4. ShimOf(config', env) \in Shims
    BY <2>3, ShimType DEF IInv, TypeOK
  <2>5. settings' \in Shims /\ settings' = ShimOf(config', settingsFrom')
    BY <2>1, <2>2, <2>4
  <2>6. SettingsInv'
    BY <2>1, <2>2, <2>5 DEF IInv, ConfigInv, SettingsInv
  <2>7. TypeOK'
    BY <2>1, <2>5, ReadKeeps DEF IInv, TypeOK, SettingsGiven, Ends
  <2>8. QED
    BY <2>1, <2>6, <2>7, ReadKeeps, SessionsUnmoved DEF IInv
<1>3. QED
  BY <1>1, <1>2

LEMMA SettingsRefusedStep ==
  ASSUME IInv, SettingsRefused
  PROVE  IInv'
<1>1. ReadConfig /\ UNCHANGED <<env, edits, settings, settingsFrom, sessions,
                                since, older>>
  BY DEF SettingsRefused
<1>2. TypeOK'
  BY <1>1, ReadKeeps DEF IInv, TypeOK, SettingsRefused, Ends
<1>3. QED
  BY <1>1, <1>2, ReadKeeps, SessionsUnmoved, SettingsUnmoved DEF IInv

LEMMA MakeSessionStep ==
  ASSUME IInv, MakeSession
  PROVE  IInv'
<1>1. /\ ReadConfig /\ config' = ConfigNow
      /\ UNCHANGED <<env, edits, settings, settingsFrom, since, older>>
  BY DEF MakeSession, ReadConfig
<1>2. CASE UNCHANGED sessions /\ Ends("session", "refused")
  <2>1. sessions' = sessions
    BY <1>2
  <2>2. TypeOK'
    BY <1>1, <1>2, <2>1, ReadKeeps DEF IInv, TypeOK, Ends
  <2>3. QED
    BY <1>1, <2>1, <2>2, ReadKeeps, SessionsUnmoved, SettingsUnmoved DEF IInv
<1>3. CASE /\ ConfigNow # None /\ sessions' = Append(sessions, AddressOf(ConfigNow))
           /\ Ends("session", "given")
  <2>1. config' # None /\ sessions' = Append(sessions, config'[TokenUrl])
    BY <1>1, <1>3 DEF AddressOf
  <2>2. config'[TokenUrl] \in Values
    BY <1>1, <2>1, ReadKeeps, ConfigAssumption
  <2>3. sessions \in Seq(Values) /\ older \in 0..Len(sessions)
    BY DEF IInv, TypeOK
  <2>4. /\ sessions' \in Seq(Values) /\ Len(sessions') = Len(sessions) + 1
        /\ sessions'[Len(sessions) + 1] = config'[TokenUrl]
        /\ \A i \in 1..Len(sessions) : sessions'[i] = sessions[i]
    BY <2>1, <2>2, <2>3
  <2>5. Len(sessions) < MaxSessions /\ MaxSessions \in Nat
    BY ConfigAssumption DEF MakeSession
  <2>6. TypeOK'
    BY <1>1, <1>3, <2>3, <2>4, <2>5, ReadKeeps DEF IInv, TypeOK, Ends
  <2>7. SessionsAgree'
    <3>1. \A i \in (older + 1)..Len(sessions) : sessions[i] = config'[TokenUrl]
      BY <1>1, ReadKeeps DEF IInv, SessionsAgree
    <3>2. older' = older
      BY <1>1
    <3>3. QED
      BY <2>1, <2>3, <2>4, <3>1, <3>2 DEF SessionsAgree
  <2>8. QED
    BY <1>1, <2>6, <2>7, ReadKeeps, SettingsUnmoved DEF IInv
<1>4. QED
  BY <1>2, <1>3 DEF MakeSession

LEMMA ResetStep ==
  ASSUME IInv, ResetConfig \/ ResetSettings
  PROVE  IInv'
<1>1. /\ config' = None /\ settings' = None
      /\ since' = {env} /\ older' = Len(sessions) /\ heard' = {}
      /\ UNCHANGED <<env, edits, sessions, answer, configFrom, settingsFrom>>
  BY DEF ResetConfig, ResetSettings, Forget
<1>2. sessions \in Seq(Values) /\ Len(sessions) \in Nat
  BY DEF IInv, TypeOK
<1>3. TypeOK'
  BY <1>1, <1>2 DEF IInv, TypeOK
<1>4. ConfigInv' /\ SettingsInv'
  BY <1>1 DEF ConfigInv, SettingsInv
<1>5. SessionsAgree'
  BY <1>1, <1>2 DEF SessionsAgree
<1>6. QED
  BY <1>3, <1>4, <1>5 DEF IInv

LEMMA ChangeEnvStep ==
  ASSUME IInv, ChangeEnv
  PROVE  IInv'
<1>1. /\ env' \in Edited(env) /\ since' = since \cup {env'}
      /\ edits < MaxEdits /\ edits' = edits + 1
      /\ UNCHANGED <<config, settings, sessions, answer, configFrom,
                     settingsFrom, older, heard>>
  BY DEF ChangeEnv
<1>2. env \in Variables
  BY DEF IInv, TypeOK
<1>3. env' \in Variables
  <2>1. \A f \in Fields, t \in Texts \cup {Unset} :
          [env EXCEPT !.new[f] = t] \in Variables
    BY <1>2 DEF Variables
  <2>2. \A f \in Aliased, t \in Texts \cup {Unset} :
          [env EXCEPT !.old[f] = t] \in Variables
    BY <1>2 DEF Variables
  <2>3. \A t \in Texts \cup {Unset} : [env EXCEPT !.chunk = t] \in Variables
    BY <1>2 DEF Variables
  <2>4. [env EXCEPT !.backend = ~env.backend] \in Variables
    BY <1>2 DEF Variables
  <2>5. QED
    BY <1>1, <2>1, <2>2, <2>3, <2>4 DEF Edited
<1>4. TypeOK'
  BY <1>1, <1>3, ConfigAssumption DEF IInv, TypeOK
<1>5. ConfigInv'
  BY <1>1 DEF IInv, ConfigInv
<1>6. QED
  BY <1>1, <1>4, <1>5, SessionsUnmoved, SettingsUnmoved DEF IInv

LEMMA NextPreserves == IInv /\ [Next]_vars => IInv'
<1> SUFFICES ASSUME IInv, [Next]_vars PROVE IInv'
  OBVIOUS
<1>1. CASE UNCHANGED vars
  BY <1>1 DEF vars, history, IInv, TypeOK, ConfigInv, SettingsInv, SessionsAgree
<1>2. CASE Next
  BY <1>2, GetConfigStep, SettingsGivenStep, SettingsRefusedStep,
     MakeSessionStep, ResetStep, ChangeEnvStep DEF Next
<1>3. QED
  BY <1>1, <1>2

LEMMA InvariantHolds == Spec => []IInv
<1>1. QED
  BY InitEstablishes, NextPreserves, PTL DEF Spec

-----------------------------------------------------------------------------
(* The results *)

(* Caches, sessions and environments keep their types: no text that does   *)
(* not read is ever in a Config or a Settings (_config.py:470-502).        *)
THEOREM TypeCorrect == Spec => []TypeOK
<1>1. IInv => TypeOK
  BY DEF IInv
<1>2. QED
  BY <1>1, InvariantHolds, PTL

(* The two caches and the sessions agree with one another, and with no     *)
(* environment from before the last reset (_models/_settings.py:254-320).  *)
THEOREM CachesAlwaysAgree == Spec => []CachesAgree
<1>1. ASSUME IInv PROVE CachesAgree
  <2>1. settings # None => settings = ShimOf(config, settingsFrom)
    BY <1>1 DEF IInv, SettingsInv
  <2>2. settings # None => \A f \in Aliased :
          settings.shown[f] = IF f \in Cut THEN Truncated(config[f])
                              ELSE config[f]
    BY <2>1 DEF ShimOf
  <2>3. SettingsFollowConfig /\ ResetIsComplete
    BY <1>1, <2>2 DEF IInv, ConfigInv, SettingsInv, SettingsFollowConfig,
       ResetIsComplete
  <2>4. QED
    BY <1>1, <2>3 DEF IInv, CachesAgree
<1>2. QED
  BY <1>1, InvariantHolds, PTL

(* Whoever gets a Config has been told of each variable of the table, of   *)
(* each deprecated name whether it counted, and of the backend; what was   *)
(* said of a deprecated name is what happened to it (_config.py:568-625).  *)
THEOREM WarningsAlwaysGiven == Spec => []WarningsAreGiven
<1>1. ASSUME IInv, config # None
      PROVE  /\ \A f \in Fields : configFrom.new[f] # Unset =>
                  /\ config[f] = configFrom.new[f]
                  /\ f \in Listed => <<"inert", f>> \in heard
             /\ \A f \in Aliased : configFrom.old[f] # Unset =>
                  \/ config[f] = configFrom.old[f] /\ <<"old", f>> \in heard
                  \/ configFrom.new[f] # Unset /\ <<"overruled", f>> \in heard
             /\ configFrom.backend => <<"dead", "backend">> \in heard
  <2>1. /\ Resolves(configFrom) /\ config = Resolved(configFrom)
        /\ WarnedOf(configFrom) \subseteq heard
    BY <1>1 DEF IInv, ConfigInv
  <2>2. \A f \in Fields :
          configFrom.new[f] # Unset => config[f] = configFrom.new[f]
    BY <2>1 DEF Resolved, Value
  <2>3. \A f \in Aliased :
          configFrom.old[f] # Unset /\ configFrom.new[f] = Unset =>
            config[f] = configFrom.old[f]
    BY <2>1, ConfigAssumption DEF Resolved, Value, Counts
  <2>4. \A f \in Aliased : configFrom.old[f] # Unset =>
          <<IF configFrom.new[f] = Unset THEN "old" ELSE "overruled", f>> \in heard
    BY <2>1, WarnedOfResolved
  <2>5. QED
    BY <2>1, <2>2, <2>3, <2>4, WarnedOfResolved
<1>2. IInv => WarningsAreGiven
  BY <1>1 DEF WarningsAreGiven
<1>3. QED
  BY <1>2, InvariantHolds, PTL

(* A Config that was accepted is accepted by Settings too, but for a       *)
(* number int() cannot hold and for the variable Settings reads itself.    *)
LEMMA ShimAcceptsResolved ==
  ASSUME NEW e \in Variables, NEW c \in [Fields -> Values],
         \A f \in Fields : Valid(f, c[f]),
         ~ShimOverflows(c), ChunkReads(e)
  PROVE  ShimAccepts(c, e)
<1>1. \A f \in Aliased : c[f] \in Values \ {Junk}
  BY ConfigAssumption DEF Valid, WellFormed
<1>2. \A f \in Aliased \cap Cut : Valid(f, Truncated(c[f]))
  BY <1>1, TruncatedType, ConfigAssumption DEF Valid, WellFormed, InRange
<1>3. \A f \in Aliased : Valid(f, ShimOf(c, e).shown[f])
  BY <1>2, ConfigAssumption DEF ShimOf
<1>4. QED
  BY <1>3 DEF ShimAccepts

(* The deprecated reader and the present one agree on an environment of    *)
(* deprecated names and whole numbers.                                     *)
LEMMA ReadersOfOne ==
  ASSUME NEW e \in Variables,
         \A f \in Fields : e.new[f] = Unset,
         \A f \in Cut \cap Aliased : e.old[f] \in Numbers => IsWhole(e.old[f])
  PROVE  LegacySettings(e) =
           IF Resolves(e) /\ ShimAccepts(Resolved(e), e)
           THEN ShimOf(Resolved(e), e) ELSE None
<1> DEFINE value(f) == IF e.old[f] # Unset THEN e.old[f] ELSE Default[f]
           reads == \A f \in Aliased :
                      e.old[f] # Unset =>
                        Casts(f, e.old[f]) /\ (f \in Cut => IsWhole(e.old[f]))
           accepts == /\ reads /\ ChunkReads(e)
                      /\ \A f \in Aliased : Valid(f, value(f))
<1>1. \A f \in Aliased : e.old[f] \in Texts \cup {Unset} /\ f \in Fields
  BY ConfigAssumption DEF Variables
<1>2. \A f \in Fields : Value(e, f) = IF f \in Aliased THEN value(f) ELSE Default[f]
  BY ConfigAssumption DEF Value, Counts
<1>3. \A f \in Fields : Valid(f, Default[f])
  BY ConfigAssumption DEF Valid, WellFormed, InRange
<1>4. BadNew(e) = {}
  BY DEF BadNew
<1>5. BadOld(e) = {} <=> \A f \in Aliased : e.old[f] # Unset => Casts(f, e.old[f])
  BY <1>1 DEF BadOld, Counts
<1>6. Resolves(e) <=> /\ \A f \in Aliased : e.old[f] # Unset => Casts(f, e.old[f])
                      /\ \A f \in Aliased : Valid(f, value(f))
  BY <1>1, <1>2, <1>3, <1>4, <1>5 DEF Resolves
<1>7. \A f \in Aliased : Resolved(e)[f] = value(f)
  BY <1>1, <1>2 DEF Resolved
<1>8. ASSUME NEW f \in Aliased \cap Cut, e.old[f] # Unset => Casts(f, e.old[f])
      PROVE  /\ (e.old[f] # Unset => IsWhole(e.old[f])) <=> value(f) # Infinite
             /\ value(f) # Infinite => Truncated(value(f)) = value(f)
  <2>1. CASE e.old[f] = Unset
    BY <1>1, <2>1, ConfigAssumption DEF Truncated
  <2>2. CASE e.old[f] # Unset
    <3>1. e.old[f] \in Numbers \cup {Infinite}
      BY <1>1, <1>8, <2>2, ConfigAssumption DEF Casts, Texts
    <3>2. Infinite \notin Numbers
      BY ConfigAssumption
    <3>3. CASE e.old[f] = Infinite
      BY <2>2, <3>2, <3>3 DEF IsWhole
    <3>4. CASE e.old[f] \in Numbers
      <4>1. IsWhole(e.old[f])
        BY <3>4
      <4>2. e.old[f] \in Nat /\ e.old[f] % 2 = 0 /\ e.old[f] # Infinite
        BY <3>4, <4>1, ConfigAssumption DEF IsWhole
      <4>3. Truncated(e.old[f]) = e.old[f]
        BY <4>2 DEF Truncated
      <4>4. QED
        BY <2>2, <4>1, <4>2, <4>3
    <3>5. QED
      BY <3>1, <3>3, <3>4
  <2>3. QED
    BY <2>1, <2>2
<1>9. Resolves(e) => (reads <=> ~ShimOverflows(Resolved(e)))
  BY <1>6, <1>7, <1>8 DEF ShimOverflows
<1>10. ASSUME Resolves(e), ~ShimOverflows(Resolved(e))
       PROVE  ShimOf(Resolved(e), e) =
                [shown |-> [f \in Aliased |-> value(f)], chunk |-> ChunkOf(e)]
  <2>1. \A f \in Aliased \cap Cut : Truncated(value(f)) = value(f)
    BY <1>6, <1>7, <1>8, <1>10 DEF ShimOverflows
  <2>2. QED
    BY <1>7, <2>1 DEF ShimOf
<1>11. Resolves(e) /\ ShimAccepts(Resolved(e), e) <=> accepts
  <2>1. accepts => Resolves(e)
    BY <1>6
  <2>2. accepts => ~ShimOverflows(Resolved(e)) /\ ChunkReads(e)
    BY <1>9, <2>1
  <2>3. accepts => ShimAccepts(Resolved(e), e)
    BY <2>1, <2>2, ResolvedType, ShimAcceptsResolved
  <2>4. Resolves(e) /\ ShimAccepts(Resolved(e), e) => accepts
    BY <1>6, <1>9 DEF ShimAccepts
  <2>5. QED
    BY <2>1, <2>3, <2>4
<1>12. LegacySettings(e) =
         IF accepts
         THEN [shown |-> [f \in Aliased |-> value(f)], chunk |-> ChunkOf(e)]
         ELSE None
  BY DEF LegacySettings
<1>13. accepts => ShimOf(Resolved(e), e) =
                    [shown |-> [f \in Aliased |-> value(f)], chunk |-> ChunkOf(e)]
  BY <1>9, <1>10, <1>11
<1>14. QED
  BY <1>11, <1>12, <1>13

(* The three ways to read the configuration agree wherever they overlap,   *)
(* and none fails alone but for its own variables (_settings.py:182-307).  *)
THEOREM ReadersAlwaysAgree == Spec => []ReadersAgree
<1>1. IInv => ShimFailsOnItsOwn
  <2> SUFFICES ASSUME IInv, config # None, ~ShimOverflows(config), ChunkReads(env)
      PROVE  ShimAccepts(config, env)
    BY DEF ShimFailsOnItsOwn
  <2>1. config \in [Fields -> Values] /\ \A f \in Fields : Valid(f, config[f])
    BY ResolvedType DEF IInv, TypeOK, ConfigInv
  <2>2. QED
    BY <2>1, ShimAcceptsResolved DEF IInv, TypeOK
<1>2. IInv => LegacyReadersAgree
  BY ReadersOfOne DEF IInv, TypeOK, LegacyReadersAgree
<1>3. IInv => ReadersAgree
  BY <1>1, <1>2 DEF ReadersAgree
<1>4. QED
  BY <1>3, InvariantHolds, PTL

(* A Config, once given out, is everybody's until a reset of either cache  *)
(* (_config.py:647-668).                                                   *)
THEOREM ConfigStays == Spec => ConfigIsKept
<1>1. [Next]_vars =>
        [config # None =>
           config' = config \/ (config' = None /\ settings' = None)]_vars
  BY DEF Next, GetConfig, SettingsGiven, SettingsRefused, MakeSession,
     ResetConfig, ResetSettings, Forget, ChangeEnv, ReadConfig, ConfigNow
<1>2. QED
  BY <1>1, PTL DEF Spec, ConfigIsKept
=============================================================================
