---------------------------- MODULE StartupProofs ----------------------------
(***************************************************************************)
(* Theorems about Startup, for every set of settings an operator edits and *)
(* every number of edits: signed requests go only to a server that         *)
(* enrolled the identity they are signed with, and a pin is never replaced.*)
(***************************************************************************)
EXTENDS Startup, TLAPS

\* A record is written only after its server registered that directory.
RecordsRegistered ==
    \A p \in IdentityPaths :
        identity[p].record # None => <<identity[p].record, p>> \in registered

\* A configuration that got past Validate names directories of the host.
PathsKnown == pc \notin {"off", "load"} => stateDir \in StatePaths /\ identityDir \in IdentityPaths

IInv == TypeOK /\ RecordsRegistered /\ PathsKnown /\ TalksToEnrolledServer

-----------------------------------------------------------------------------
(* Facts about the settings.                                                *)

\* The two directory settings are settings, and what may be written for them.
LEMMA DirectoryTexts ==
    /\ {"state_dir", "identity_dir"} \subseteq Fields
    /\ {"state_dir", "identity_dir"} \subseteq PathFields
    /\ Texts("state_dir") = {"var", "alt", "relative"}
    /\ Texts("identity_dir") = {"etc", "var", "alt", "relative"}
    /\ Default["state_dir"] = "var" /\ Default["identity_dir"] = "etc"
BY DEF Fields, PathFields, IntervalFields, Texts, Default

\* Neither parser changes the text of a directory.
LEMMA DirectoryParses ==
    ASSUME NEW f \in {"state_dir", "identity_dir"}, NEW t
    PROVE  FromToml(f, t) = t /\ FromEnv(f, t) = t
BY DEF FromToml, FromEnv, IntervalFields

\* Whatever was written, a configuration that validates names known paths.
LEMMA ValidPaths ==
    ASSUME TypeOK, Validate(WithOverrides(FromFile(file), env))
    PROVE  /\ WithOverrides(FromFile(file), env)["state_dir"] \in StatePaths
           /\ WithOverrides(FromFile(file), env)["identity_dir"] \in IdentityPaths
<1> DEFINE raw == FromFile(file)
           merged == WithOverrides(raw, env)
<1>1. ASSUME NEW f \in {"state_dir", "identity_dir"}
      PROVE  /\ merged[f] \in Texts(f) \cup {Default[f]}
             /\ merged[f] # "relative"
      <2>1. f \in Fields /\ f \in PathFields
            BY DirectoryTexts
      <2>2. raw[f] = (IF file[f] = Absent THEN Default[f] ELSE file[f])
            BY <2>1, DirectoryParses DEF FromFile
      <2>3. merged[f] = (IF env[f] = Absent THEN raw[f] ELSE env[f])
            BY <2>1, DirectoryParses DEF WithOverrides
      <2>4. file[f] \in Texts(f) \cup {Absent} /\ env[f] \in Texts(f) \cup {Absent}
            BY <2>1 DEF TypeOK
      <2>5. ValidateManagedPath(merged[f])
            BY <2>1 DEF Validate
      <2> QED BY <2>2, <2>3, <2>4, <2>5 DEF ValidateManagedPath
<1>2. merged["state_dir"] \in Texts("state_dir") \cup {"var"} /\ merged["state_dir"] # "relative"
      BY <1>1, DirectoryTexts
<1>3. merged["identity_dir"] \in Texts("identity_dir") \cup {"etc"}
      /\ merged["identity_dir"] # "relative"
      BY <1>1, DirectoryTexts
<1> QED BY <1>2, <1>3, DirectoryTexts DEF StatePaths, IdentityPaths

\* What the installer writes can be written.
LEMMA InstalledTexts ==
    /\ DOMAIN Installed = Fields /\ DOMAIN NoOverride = Fields /\ DOMAIN Default = Fields
    /\ \A f \in Fields : Installed[f] \in Texts(f) \cup {Absent} /\ NoOverride[f] = Absent
<1>1. ASSUME NEW f \in Fields PROVE Installed[f] \in Texts(f) \cup {Absent}
      <2>1. CASE f = "server_url"
            BY <2>1 DEF Installed, Texts, Fields, IntervalFields, PathFields
      <2>2. CASE f = "machine_id"
            BY <2>2 DEF Installed, Texts, Fields, IntervalFields, PathFields
      <2>3. CASE f = "identity_dir"
            BY <2>3, DirectoryTexts DEF Installed, Fields
      <2>4. CASE f \notin {"server_url", "machine_id", "identity_dir"}
            BY <2>4 DEF Installed
      <2> QED BY <2>1, <2>2, <2>3, <2>4
<1> QED BY <1>1 DEF Installed, NoOverride, Default

LEMMA InvInit == Init => IInv
<1> SUFFICES ASSUME Init PROVE IInv
    OBVIOUS
<1>1. state \in [StatePaths -> StateDirs]
      BY DEF StateDirs, Init
<1>2. /\ identity \in [IdentityPaths -> IdentityDirs]
      /\ \A p \in IdentityPaths : identity[p].record = None
      BY DEF IdentityDirs, Init
<1>3. TypeOK
      <2>1. \A f \in Fields : {file[f], env[f]} \subseteq Texts(f) \cup {Absent}
            BY InstalledTexts DEF Init
      <2>2. DOMAIN file = Fields /\ DOMAIN env = Fields /\ DOMAIN cfg = Fields
            BY InstalledTexts DEF Init
      <2>3. {pem, repaired} \subseteq BOOLEAN
            BY DEF Init
      <2>4. edits \in 0..MaxEdits
            BY StartupAssumption DEF Init
      <2> QED BY <1>1, <1>2, <2>1, <2>2, <2>3, <2>4 DEF Init, TypeOK, Points
<1> QED BY <1>2, <1>3 DEF Init, IInv, RecordsRegistered, PathsKnown, TalksToEnrolledServer

-----------------------------------------------------------------------------
(* The steps.  Most of them leave every directory alone.                    *)

\* A step that touches neither directory nor registration keeps the records.
LEMMA RecordsStay ==
    ASSUME RecordsRegistered, UNCHANGED <<identity, registered>>
    PROVE  RecordsRegistered'
BY DEF RecordsRegistered

\* The end of a process: nothing is known of a configuration any more.
LEMMA ExitKeeps ==
    ASSUME Exit
    PROVE  /\ pc' \in Points /\ DOMAIN cfg' = Fields
           /\ target' \in {None} \cup Servers \cup {"http://a"}
           /\ PathsKnown' /\ TalksToEnrolledServer'
BY InstalledTexts DEF Exit, Points, PathsKnown, TalksToEnrolledServer

\* Going on to a point with the same configuration and target.
LEMMA GotoKeeps ==
    ASSUME IInv, NEW p \in Points, Goto(p),
           p \in {"off", "load"} \/ pc \notin {"off", "load"},
           p \in {"recover", "clients", "serving"} => pc \in {"recover", "clients", "serving"},
           registered \subseteq registered'
    PROVE  /\ pc' \in Points /\ DOMAIN cfg' = Fields
           /\ target' \in {None} \cup Servers \cup {"http://a"}
           /\ PathsKnown' /\ TalksToEnrolledServer'
BY DEF Goto, IInv, TypeOK, PathsKnown, TalksToEnrolledServer, stateDir, identityDir

\* The steps of a start that neither enroll nor touch a directory.
LEMMA InvReading ==
    IInv /\ (Start \/ Load \/ Checks \/ LoadIdentity \/ BeginEnrollment \/ Recover \/ Clients
             \/ Stop) => IInv'
<1> SUFFICES ASSUME IInv, Start \/ Load \/ Checks \/ LoadIdentity \/ BeginEnrollment \/ Recover
                          \/ Clients \/ Stop
             PROVE  IInv'
    OBVIOUS
<1>1. UNCHANGED <<file, env, token, hostname, pem, state, identity, registered, edits, repaired>>
      BY DEF Start, Load, Checks, LoadIdentity, BeginEnrollment, Recover, Clients, Stop, operator
<1>2. /\ pc' \in Points /\ DOMAIN cfg' = Fields
      /\ target' \in {None} \cup Servers \cup {"http://a"}
      /\ PathsKnown' /\ TalksToEnrolledServer'
      <2>1. CASE Exit
            BY <2>1, ExitKeeps
      <2>2. CASE pc = "off" /\ Goto("load")
            BY <1>1, <2>2, GotoKeeps DEF Points
      <2>3. CASE Load /\ ~Exit
            <3>1. /\ cfg' = WithOverrides(FromFile(file), env)
                  /\ Validate(WithOverrides(FromFile(file), env))
                  /\ pc' = "checks" /\ target' = target
                  BY <2>3 DEF Load, Loads
            <3>2. DOMAIN cfg' = Fields
                  BY <3>1 DEF WithOverrides
            <3>3. PathsKnown'
                  BY <3>1, ValidPaths DEF IInv, PathsKnown, stateDir, identityDir
            <3>4. TalksToEnrolledServer'
                  BY <3>1 DEF TalksToEnrolledServer
            <3> QED BY <3>1, <3>2, <3>3, <3>4 DEF IInv, TypeOK, Points
      <2>4. CASE pc = "checks" /\ Goto("statedir")
            BY <1>1, <2>4, GotoKeeps DEF Points
      <2>5. CASE LoadIdentity /\ ~Exit
            <3>1. /\ pc = "identity" /\ pc' = "recover" /\ cfg' = cfg
                  /\ identity[identityDir].record # None
                  /\ target' = identity[identityDir].record
                  BY <2>5 DEF LoadIdentity
            <3>2. identityDir \in IdentityPaths /\ stateDir \in StatePaths
                  BY <3>1 DEF IInv, PathsKnown
            <3>3. target' \in Servers
                  BY <3>1, <3>2 DEF IdentityDirs, IInv, TypeOK
            <3>4. <<target', identityDir>> \in registered
                  BY <3>1, <3>2 DEF IInv, RecordsRegistered
            <3> QED BY <1>1, <3>1, <3>2, <3>3, <3>4
                    DEF IInv, TypeOK, Points, PathsKnown, TalksToEnrolledServer, stateDir,
                        identityDir
      <2>6. CASE pc = "identity" /\ Goto("enroll")
            BY <1>1, <2>6, GotoKeeps DEF Points
      <2>7. CASE pc = "recover" /\ Goto("clients")
            BY <1>1, <2>7, GotoKeeps DEF Points
      <2>8. CASE pc = "clients" /\ Goto("serving")
            BY <1>1, <2>8, GotoKeeps DEF Points
      <2> QED BY <2>1, <2>2, <2>3, <2>4, <2>5, <2>6, <2>7, <2>8
              DEF Start, Load, Checks, LoadIdentity, BeginEnrollment, Recover, Clients, Stop
<1>3. TypeOK'
      BY <1>1, <1>2 DEF IInv, TypeOK
<1>4. RecordsRegistered'
      BY <1>1, RecordsStay DEF IInv
<1> QED BY <1>2, <1>3, <1>4 DEF IInv

\* The steps that write to the state directory only.
LEMMA InvStateDir == IInv /\ (EnsureStateDir \/ SyncPass) => IInv'
<1> SUFFICES ASSUME IInv, EnsureStateDir \/ SyncPass PROVE IInv'
    OBVIOUS
<1>1. UNCHANGED <<file, env, token, hostname, pem, identity, registered, edits, repaired>>
      BY DEF EnsureStateDir, SyncPass, operator
<1>2. /\ pc' \in Points /\ DOMAIN cfg' = Fields
      /\ target' \in {None} \cup Servers \cup {"http://a"}
      /\ PathsKnown' /\ TalksToEnrolledServer'
      <2>1. CASE Exit
            BY <2>1, ExitKeeps
      <2>2. CASE pc = "statedir" /\ Goto("identity")
            BY <1>1, <2>2, GotoKeeps DEF Points
      <2>3. CASE pc = "serving" /\ Goto("serving")
            BY <1>1, <2>3, GotoKeeps DEF Points
      <2> QED BY <2>1, <2>2, <2>3 DEF EnsureStateDir, SyncPass
<1>3. state' \in [StatePaths -> StateDirs]
      <2>1. CASE EnsureStateDir
            BY <2>1 DEF StateDirs, EnsureStateDir, IInv, TypeOK
      <2>2. CASE SyncPass
            <3>1. target \in Servers
                  BY <2>2 DEF SyncPass, IInv, TalksToEnrolledServer, TypeOK
            <3>2. BundleSigningKey[target] \in {None, "ka", "kb"}
                  BY <3>1 DEF BundleSigningKey
            <3> QED BY <2>2, <3>2 DEF StateDirs, SyncPass, IInv, TypeOK
      <2> QED BY <2>1, <2>2
<1>4. TypeOK'
      BY <1>1, <1>2, <1>3 DEF IInv, TypeOK
<1>5. RecordsRegistered'
      BY <1>1, RecordsStay DEF IInv
<1> QED BY <1>2, <1>4, <1>5 DEF IInv

\* Enrollment: the server registers the directory before its record is there.
LEMMA InvEnroll == IInv /\ (Enroll \/ EnrollFails) => IInv'
<1> SUFFICES ASSUME IInv, Enroll \/ EnrollFails PROVE IInv'
    OBVIOUS
<1> DEFINE server == cfg["server_url"]
<1>1. pc = "enroll" /\ UNCHANGED <<file, env, token, hostname, pem, edits, repaired>>
      BY DEF Enroll, EnrollFails, operator
<1>2. stateDir \in StatePaths /\ identityDir \in IdentityPaths
      BY <1>1 DEF IInv, PathsKnown
<1>3. CASE Enroll
      <2>1. /\ server \in Servers
            /\ identity' = [identity EXCEPT ![identityDir].record = server,
                                            ![identityDir].key = "private"]
            /\ registered' = registered \cup {<<server, identityDir>>}
            BY <1>3 DEF Enroll, Asks, EnrollmentServerUrl
      <2>2. registered' \subseteq Servers \X IdentityPaths /\ registered \subseteq registered'
            BY <1>2, <2>1 DEF IInv, TypeOK
      <2>3. identity' \in [IdentityPaths -> IdentityDirs]
            BY <2>1 DEF IdentityDirs, IInv, TypeOK
      <2>4. RecordsRegistered'
            <3> SUFFICES ASSUME NEW p \in IdentityPaths, identity'[p].record # None
                         PROVE  <<identity'[p].record, p>> \in registered'
                BY DEF RecordsRegistered
            <3>1. CASE p = identityDir
                  BY <1>2, <2>1, <3>1 DEF IInv, TypeOK
            <3>2. CASE p # identityDir
                  BY <2>1, <2>2, <3>2 DEF IInv, TypeOK, RecordsRegistered
            <3> QED BY <3>1, <3>2
      <2>5. CASE Exit /\ state' = state
            <3>1. TypeOK'
                  BY <1>1, <2>2, <2>3, <2>5, ExitKeeps DEF IInv, TypeOK
            <3> QED BY <2>4, <2>5, <3>1, ExitKeeps DEF IInv
      <2>6. CASE ~(Exit /\ state' = state)
            <3>1. /\ pc' = "recover" /\ target' = server /\ cfg' = cfg
                  /\ \E key \in {None, BundleSigningKey[server]} :
                        state' = [state EXCEPT ![stateDir].pin = PinBundleSigningKey(@, key)]
                  BY <1>3, <2>6 DEF Enroll
            <3>2. PICK key \in {None, "ka", "kb"} :
                     state' = [state EXCEPT ![stateDir].pin = PinBundleSigningKey(@, key)]
                  BY <2>1, <3>1 DEF BundleSigningKey
            <3>3. state' \in [StatePaths -> StateDirs]
                  <4>1. \A pin \in {None, "ka", "kb"} : PinBundleSigningKey(pin, key) \in {None, "ka", "kb"}
                        BY DEF PinBundleSigningKey
                  <4>2. state[stateDir].pin \in {None, "ka", "kb"}
                        BY <1>2 DEF StateDirs, IInv, TypeOK
                  <4>3. PICK pin \in {None, "ka", "kb"} : state' = [state EXCEPT ![stateDir].pin = pin]
                        BY <3>2, <4>1, <4>2
                  <4> QED BY <4>3 DEF StateDirs, IInv, TypeOK
            <3>4. TypeOK'
                  BY <1>1, <2>1, <2>2, <2>3, <3>1, <3>3 DEF IInv, TypeOK, Points
            <3>5. PathsKnown' /\ TalksToEnrolledServer'
                  BY <1>2, <2>1, <3>1 DEF PathsKnown, TalksToEnrolledServer, stateDir, identityDir
            <3> QED BY <2>4, <3>4, <3>5 DEF IInv
      <2> QED BY <2>5, <2>6
<1>4. CASE EnrollFails
      <2>1. Goto("enroll") /\ state' = state
            BY <1>4 DEF EnrollFails
      <2>2. /\ registered \subseteq registered'
            /\ registered' \subseteq Servers \X IdentityPaths
            /\ \/ identity' = identity
               \/ identity' = [identity EXCEPT ![identityDir].key = "private"]
            BY <1>2, <1>4 DEF EnrollFails, Asks, EnrollmentServerUrl, IInv, TypeOK
      <2>3. /\ identity' \in [IdentityPaths -> IdentityDirs]
            /\ \A p \in IdentityPaths : identity'[p].record = identity[p].record
            BY <2>2 DEF IdentityDirs, IInv, TypeOK
      <2>4. /\ pc' \in Points /\ DOMAIN cfg' = Fields
            /\ target' \in {None} \cup Servers \cup {"http://a"}
            /\ PathsKnown' /\ TalksToEnrolledServer'
            BY <1>1, <2>1, <2>2, GotoKeeps DEF Points
      <2>5. TypeOK'
            BY <1>1, <2>1, <2>2, <2>3, <2>4 DEF IInv, TypeOK
      <2>6. RecordsRegistered'
            BY <2>2, <2>3 DEF IInv, RecordsRegistered
      <2> QED BY <2>4, <2>5, <2>6 DEF IInv
<1> QED BY <1>3, <1>4

\* The operator's edits: nothing a running process has read changes, and no
\* edit makes a record.
LEMMA InvEdits == IInv /\ (EditSetting \/ EditHost \/ DisturbFiles) => IInv'
<1> SUFFICES ASSUME IInv, EditSetting \/ EditHost \/ DisturbFiles PROVE IInv'
    OBVIOUS
<1>1. /\ UNCHANGED <<pc, cfg, target, registered, repaired>>
      /\ edits < MaxEdits /\ edits' = edits + 1
      BY DEF EditSetting, EditHost, DisturbFiles, Edit
<1>2. edits' \in 0..MaxEdits
      BY <1>1, StartupAssumption DEF IInv, TypeOK
<1>3. PathsKnown' /\ TalksToEnrolledServer'
      BY <1>1 DEF IInv, PathsKnown, TalksToEnrolledServer, stateDir, identityDir
<1>4. CASE EditSetting
      <2>1. UNCHANGED <<token, hostname, pem, state, identity>>
            BY <1>4 DEF EditSetting
      <2>2. PICK f \in Fields : \E t \in Texts(f) \cup {Absent} :
               \/ file' = [file EXCEPT ![f] = t] /\ env' = env
               \/ env' = [env EXCEPT ![f] = t] /\ file' = file
            BY <1>4, StartupAssumption DEF EditSetting
      <2>3. /\ DOMAIN file' = Fields /\ DOMAIN env' = Fields
            /\ \A g \in Fields : {file'[g], env'[g]} \subseteq Texts(g) \cup {Absent}
            <3>1. DOMAIN file = Fields /\ DOMAIN env = Fields
                  BY DEF IInv, TypeOK
            <3>2. DOMAIN file' = Fields /\ DOMAIN env' = Fields
                  BY <2>2, <3>1
            <3>3. ASSUME NEW g \in Fields
                  PROVE  file'[g] \in Texts(g) \cup {Absent} /\ env'[g] \in Texts(g) \cup {Absent}
                  <4>1. file[g] \in Texts(g) \cup {Absent} /\ env[g] \in Texts(g) \cup {Absent}
                        BY DEF IInv, TypeOK
                  <4>2. CASE g = f
                        BY <2>2, <3>1, <4>1, <4>2
                  <4>3. CASE g # f
                        BY <2>2, <3>1, <4>1, <4>3
                  <4> QED BY <4>2, <4>3
            <3> QED BY <3>2, <3>3
      <2>4. TypeOK'
            BY <1>1, <1>2, <2>1, <2>3 DEF IInv, TypeOK
      <2> QED BY <1>1, <1>3, <2>1, <2>4, RecordsStay DEF IInv
<1>5. CASE EditHost
      <2>1. UNCHANGED <<file, env, state, identity>>
            BY <1>5 DEF EditHost
      <2>2. token' \in {"unset", "junk", "good"} /\ hostname' \in {"web-1", "web_1"}
            BY <1>5 DEF EditHost, IInv, TypeOK
      <2>3. pem' \in BOOLEAN
            BY <1>5 DEF EditHost, IInv, TypeOK
      <2>4. TypeOK'
            BY <1>1, <1>2, <2>1, <2>2, <2>3 DEF IInv, TypeOK
      <2> QED BY <1>1, <1>3, <2>1, <2>4, RecordsStay DEF IInv
<1>6. CASE DisturbFiles
      <2>1. UNCHANGED <<file, env, token, hostname, pem>>
            BY <1>6 DEF DisturbFiles, operator
      <2>2. state' \in [StatePaths -> StateDirs]
            <3>1. CASE state' = state
                  BY <3>1 DEF IInv, TypeOK
            <3>2. CASE \E p \in StatePaths : state' = [state EXCEPT ![p].kind = "link"]
                  BY <3>2 DEF IInv, TypeOK, StateDirs
            <3>3. CASE \E p \in StatePaths : state' = [state EXCEPT ![p].sound = FALSE]
                  BY <3>3 DEF IInv, TypeOK, StateDirs
            <3> QED BY <1>6, <3>1, <3>2, <3>3 DEF DisturbFiles
      <2>3. /\ identity' \in [IdentityPaths -> IdentityDirs]
            /\ \A p \in IdentityPaths : identity'[p].record \in {None, identity[p].record}
            <3>1. CASE identity' = identity
                  BY <3>1 DEF IInv, TypeOK
            <3>2. CASE \E p \in IdentityPaths, k \in {None, "exposed"} :
                          identity' = [identity EXCEPT ![p].key = k]
                  BY <3>2 DEF IdentityDirs, IInv, TypeOK
            <3>3. CASE \E p \in IdentityPaths, d \in BOOLEAN :
                          identity' = [identity EXCEPT
                                          ![p] = [dir |-> d, record |-> None, key |-> None]]
                  BY <3>3 DEF IdentityDirs, IInv, TypeOK
            <3> QED BY <1>6, <3>1, <3>2, <3>3 DEF DisturbFiles
      <2>4. TypeOK'
            BY <1>1, <1>2, <2>1, <2>2, <2>3 DEF IInv, TypeOK
      <2>5. RecordsRegistered'
            BY <1>1, <2>3 DEF IInv, RecordsRegistered
      <2> QED BY <1>3, <2>4, <2>5 DEF IInv
<1> QED BY <1>4, <1>5, <1>6

LEMMA InvRepair == IInv /\ Repair => IInv'
<1> SUFFICES ASSUME IInv, Repair PROVE IInv'
    OBVIOUS
<1>1. /\ Exit /\ registered' = registered /\ edits' = MaxEdits
      /\ file' = Installed /\ env' = NoOverride
      /\ token' = "good" /\ hostname' = "web-1" /\ pem' = TRUE /\ repaired' = TRUE
      BY DEF Repair
<1>2. state' \in [StatePaths -> StateDirs]
      BY DEF StateDirs, Repair, IInv, TypeOK
<1>3. /\ identity' \in [IdentityPaths -> IdentityDirs]
      /\ \A p \in IdentityPaths : identity'[p].record \in {None, identity[p].record}
      BY DEF IdentityDirs, Repair, IInv, TypeOK
<1>4. TypeOK'
      <2>1. \A f \in Fields : {file'[f], env'[f]} \subseteq Texts(f) \cup {Absent}
            BY <1>1, InstalledTexts
      <2>2. edits' \in 0..MaxEdits
            BY <1>1, StartupAssumption
      <2> QED BY <1>1, <1>2, <1>3, <2>1, <2>2, ExitKeeps, InstalledTexts DEF IInv, TypeOK
<1>5. RecordsRegistered'
      BY <1>1, <1>3 DEF IInv, RecordsRegistered
<1> QED BY <1>1, <1>4, <1>5, ExitKeeps DEF IInv

LEMMA InvStep == IInv /\ [Next]_vars => IInv'
<1>1. IInv /\ UNCHANGED vars => IInv'
      BY DEF vars, operator, IInv, TypeOK, RecordsRegistered, PathsKnown,
             TalksToEnrolledServer, stateDir, identityDir
<1> QED BY <1>1, InvReading, InvStateDir, InvEnroll, InvEdits, InvRepair DEF Next, Process

LEMMA Invariance == Spec => []IInv
BY InvInit, InvStep, PTL DEF Spec

-----------------------------------------------------------------------------
(* The theorems.                                                            *)

\* Every variable keeps its type: what is written for a setting, the host's
\* directories, and the server a process talks to.
THEOREM TypeCorrect == Spec => []TypeOK
BY Invariance, PTL DEF IInv

\* An agent in service talks only to a server that enrolled its identity,
\* whatever was edited before or since.
THEOREM EnrolledServerOnly == Spec => []TalksToEnrolledServer
BY Invariance, PTL DEF IInv

\* Neither enrollment nor a pass, neither restart nor repair replaces a pin.
THEOREM PinKept == Spec => PinIsKept
<1>1. IInv /\ [Next]_vars =>
         [\A p \in StatePaths : state[p].pin # None => state'[p].pin = state[p].pin]_vars
      <2> SUFFICES ASSUME IInv, Next, NEW p \in StatePaths, state[p].pin # None
                   PROVE  state'[p].pin = state[p].pin
          OBVIOUS
      <2>1. state \in [StatePaths -> StateDirs]
            BY DEF IInv, TypeOK
      <2>2. CASE Enroll
            BY <2>1, <2>2 DEF StateDirs, Enroll, PinBundleSigningKey
      <2>3. CASE SyncPass
            BY <2>1, <2>3 DEF StateDirs, SyncPass
      <2>4. CASE EnsureStateDir
            BY <2>1, <2>4 DEF StateDirs, EnsureStateDir
      <2>5. CASE DisturbFiles
            BY <2>1, <2>5 DEF StateDirs, DisturbFiles
      <2>6. CASE Repair
            BY <2>1, <2>6 DEF StateDirs, Repair
      <2>7. CASE ~(Enroll \/ SyncPass \/ EnsureStateDir \/ DisturbFiles \/ Repair)
            <3>1. state' = state
                  BY <2>7 DEF Next, Process, Start, Load, Checks, LoadIdentity, BeginEnrollment,
                              EnrollFails, Recover, Clients, Stop, EditSetting, EditHost
            <3> QED BY <3>1
      <2> QED BY <2>2, <2>3, <2>4, <2>5, <2>6, <2>7
<1> QED BY <1>1, Invariance, PTL DEF Spec, PinIsKept
=============================================================================
