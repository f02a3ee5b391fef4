------------------------------ MODULE Startup ------------------------------
(***************************************************************************)
(* From the configuration an operator wrote to an agent in service.        *)
(*                                                                         *)
(* Every start reads the file and the environment once, checks the host,   *)
(* and finds or makes the machine's identity.  The operator may change     *)
(* anything at any moment; what a running agent has read stays as it was.  *)
(* A text is one of a few words standing for what the parsers and          *)
(* validators of config.rs tell apart.                                     *)
(***************************************************************************)
EXTENDS Naturals, FiniteSets, TLC

CONSTANTS
    Edited,      \* bound: the settings the operator changes
    MaxEdits     \* bound: changes before everything is put right

-----------------------------------------------------------------------------
(* Settings.                                                                *)

IntervalFields == {"heartbeat_interval", "sync_interval"}
PathFields ==
    {"trusted_ca_path", "sshd_config_path", "state_dir", "identity_dir",
     "helper_socket_path", "helper_token_path"}
Fields ==
    {"server_url", "machine_id", "bundle_signing_public_key", "poll_jitter_ratio",
     "log_level", "log_format", "allow_insecure_tls", "tls_ca_path"}
    \cup IntervalFields \cup PathFields

ASSUME StartupAssumption == Edited \subseteq Fields /\ MaxEdits \in Nat

Absent == "absent"
None == "none"
Err == "err"

MIN_INTERVAL_SECS == 1
MAX_INTERVAL_SECS == 86400

\* The numerals, and the ratios in tenths.
Numeral == ("0" :> 0) @@ ("60" :> 60) @@ ("300" :> 300) @@ ("86401" :> 86401)
Tenths == ("0.1" :> 1) @@ ("1.1" :> 11)

\* What an operator may write for a setting, after the ones that are right.
Texts(f) ==
    CASE f = "server_url" -> {"https://a", "https://b", "http://a", "ftp://a"}
      [] f = "machine_id" -> {"host-01", "host 01"}
      [] f \in IntervalFields -> {"60", "0", "86401", "junk"}
      [] f = "state_dir" -> {"var", "alt", "relative"}
      [] f = "identity_dir" -> {"etc", "var", "alt", "relative"}
      [] f \in PathFields \ {"state_dir", "identity_dir"} -> {"std", "relative"}
      [] f = "bundle_signing_public_key" -> {"ka", "kb", "blank", "junk"}
      [] f = "poll_jitter_ratio" -> {"0.1", "1.1", "nan", "junk"}
      [] f \in {"log_level", "log_format"} -> {"lower", "UPPER", "junk"}
      [] f = "allow_insecure_tls" -> {"true", "false", "yes", "junk"}
      [] f = "tls_ca_path" -> {"pem", "blank", "relative"}

\* serde's defaults; two settings have none.
Default ==
    [f \in Fields |->
        CASE f \in {"server_url", "machine_id"} -> Err
          [] f = "heartbeat_interval" -> "60"
          [] f = "sync_interval" -> "300"
          [] f = "state_dir" -> "var"
          [] f = "identity_dir" -> "etc"
          [] f \in PathFields \ {"state_dir", "identity_dir"} -> "std"
          [] f \in {"bundle_signing_public_key", "tls_ca_path"} -> None
          [] f = "poll_jitter_ratio" -> "0.1"
          [] f \in {"log_level", "log_format"} -> "lower"
          [] f = "allow_insecure_tls" -> "false"]

ParseU64(t) == IF t \in DOMAIN Numeral THEN t ELSE Err
ParseF64(t) == IF t \in DOMAIN Tenths \cup {"nan"} THEN t ELSE Err
ParseBool(t) == IF t = "yes" THEN "true" ELSE IF t = "junk" THEN Err ELSE t

\* LogLevel::parse and LogFormat::parse: in any case of letters.
ParseLogName(t) == IF t \in {"lower", "UPPER"} THEN "lower" ELSE Err

\* toml::from_str: typed values, enum names in lower case only.
FromToml(f, t) ==
    CASE f \in IntervalFields -> ParseU64(t)
      [] f = "poll_jitter_ratio" -> ParseF64(t)
      [] f \in {"log_level", "log_format"} -> IF t = "lower" THEN t ELSE Err
      [] f = "allow_insecure_tls" -> IF t \in {"true", "false"} THEN t ELSE Err
      [] OTHER -> t

\* apply_env_overrides: more spellings, and blank is None for the two options.
FromEnv(f, t) ==
    CASE f \in IntervalFields -> ParseU64(t)
      [] f = "poll_jitter_ratio" -> ParseF64(t)
      [] f \in {"log_level", "log_format"} -> ParseLogName(t)
      [] f = "allow_insecure_tls" -> ParseBool(t)
      [] f \in {"bundle_signing_public_key", "tls_ca_path"} -> IF t = "blank" THEN None ELSE t
      [] OTHER -> t

FromFile(file) == [f \in Fields |-> IF file[f] = Absent THEN Default[f] ELSE FromToml(f, file[f])]

WithOverrides(c, env) == [f \in Fields |-> IF env[f] = Absent THEN c[f] ELSE FromEnv(f, env[f])]

ValidateServerUrl(c) ==
    c["server_url"] \in {"https://a", "https://b"}
        \cup (IF c["allow_insecure_tls"] = "true" THEN {"http://a"} ELSE {})

ValidateInterval(t) == Numeral[t] \in MIN_INTERVAL_SECS..MAX_INTERVAL_SECS

ValidateManagedPath(t) == t \notin {"relative", "blank"}

ValidateMachineId(t) == t = "host-01"

\* Every comparison with a NaN is false.
ValidateJitterRatio(t) == t # "nan" /\ Tenths[t] \in 0..10

\* A blank key is as bad as one that is no Ed25519 key.
ValidateOptionalSigningKey(t) == t \in {None, "ka", "kb"}

Validate(c) ==
    /\ ValidateServerUrl(c)
    /\ ValidateMachineId(c["machine_id"])
    /\ \A f \in IntervalFields : ValidateInterval(c[f])
    /\ \A f \in PathFields : ValidateManagedPath(c[f])
    /\ ValidateJitterRatio(c["poll_jitter_ratio"])
    /\ ValidateOptionalSigningKey(c["bundle_signing_public_key"])
    /\ c["tls_ca_path"] # None => ValidateManagedPath(c["tls_ca_path"])

-----------------------------------------------------------------------------
(* The machine.                                                             *)

StatePaths == {"var", "alt"}
IdentityPaths == {"etc", "var", "alt"}

\* The unit makes everything but /var/lib/mayfly read-only to the agent.
ReadWritePaths == {"var", "alt"}

Servers == {"https://a", "https://b"}
BundleSigningKey == [s \in Servers |-> IF s = "https://a" THEN "ka" ELSE "kb"]

WarnChecks == {"helper_token", "helper", "systemd", "ssh_compatibility"}

VARIABLES
    file, env,     \* the configuration file and the environment
    token,         \* the enrollment token in the environment
    hostname,      \* the host's name
    pem,           \* the file at tls_ca_path holds certificates
    state,         \* each state directory: what the path is, its pin, its other files
    identity,      \* each identity directory: its record, its private key
    pc,            \* where the process is; "off" when there is none
    cfg,           \* the configuration the process read
    target,        \* the server its identity names
    registered,    \* the servers that enrolled each identity directory
    edits, repaired

operator == <<file, env, token, hostname, pem>>
vars == <<operator, state, identity, pc, cfg, target, registered, edits, repaired>>

Points == {"off", "load", "checks", "statedir", "identity", "enroll", "recover", "clients", "serving"}

StateDirs == [kind : {"missing", "dir", "link"}, pin : {None, "ka", "kb"}, sound : BOOLEAN]
IdentityDirs ==
    [dir : BOOLEAN, record : {None} \cup Servers, key : {None, "private", "exposed"}]

TypeOK ==
    /\ DOMAIN file = Fields /\ DOMAIN env = Fields
    /\ \A f \in Fields : {file[f], env[f]} \subseteq Texts(f) \cup {Absent}
    /\ token \in {"unset", "junk", "good"}
    /\ hostname \in {"web-1", "web_1"}
    /\ {pem, repaired} \subseteq BOOLEAN
    /\ state \in [StatePaths -> StateDirs]
    /\ identity \in [IdentityPaths -> IdentityDirs]
    /\ pc \in Points
    /\ DOMAIN cfg = Fields
    /\ target \in {None} \cup Servers \cup {"http://a"}
    /\ registered \subseteq Servers \X IdentityPaths
    /\ edits \in 0..MaxEdits

\* The file deploy/install.sh writes.
Installed ==
    [f \in Fields |->
        CASE f = "server_url" -> "https://a"
          [] f = "machine_id" -> "host-01"
          [] f = "identity_dir" -> "var"
          [] OTHER -> Absent]

NoOverride == [f \in Fields |-> Absent]

Init ==
    /\ file = Installed
    /\ env = NoOverride
    /\ token = "good"
    /\ hostname = "web-1"
    /\ pem = TRUE
    /\ state = [p \in StatePaths |-> [kind |-> "missing", pin |-> None, sound |-> TRUE]]
    /\ identity = [p \in IdentityPaths |-> [dir |-> TRUE, record |-> None, key |-> None]]
    /\ pc = "off"
    /\ cfg = Default
    /\ target = None
    /\ registered = {}
    /\ edits = 0
    /\ repaired = FALSE

-----------------------------------------------------------------------------
(* The process.                                                             *)

Goto(p) == pc' = p /\ UNCHANGED <<cfg, target>>

\* main returns ExitCode::FAILURE, or the process is stopped.
Exit == pc' = "off" /\ cfg' = Default /\ target' = None

stateDir == cfg["state_dir"]
identityDir == cfg["identity_dir"]

\* systemd starts the unit, or restarts it after a failure.
Start ==
    /\ pc = "off"
    /\ Goto("load")
    /\ UNCHANGED <<operator, state, identity, registered, edits, repaired>>

\* from_toml_with_env: the file must parse on its own, then the overrides.
Loads(raw, merged) == (\A f \in Fields : Err \notin {raw[f], merged[f]}) /\ Validate(merged)

\* Config::load; logging is set up either way.
Load ==
    /\ pc = "load"
    /\ LET raw == FromFile(file)
           merged == WithOverrides(raw, env)
       IN IF Loads(raw, merged)
          THEN cfg' = merged /\ pc' = "checks" /\ UNCHANGED target
          ELSE Exit
    /\ UNCHANGED <<operator, state, identity, registered, edits, repaired>>

\* Mutant: every missing directory is fatal.
FatalSeverity(name) == "Fail"

\* The severity dir_check gives a missing directory.
MissingSeverity(name) == IF name = "identity" THEN "Fail" ELSE "Warn"

Check(name, severity) == [name |-> name, severity |-> severity]

\* dir_check: is_dir follows a symbolic link.
DirCheck(name, isDir) == Check(name, IF isDir THEN "Ok" ELSE MissingSeverity(name))

\* read_nonempty, helper_check and ssh_compat_check.
DegradedCheck(name, degraded) == Check(name, IF degraded THEN "Warn" ELSE "Ok")

\* validate_startup; degraded are the checks of the helper, systemd and sshd
\* that found something amiss.
Report(degraded) ==
    {Check("configuration", IF Validate(cfg) THEN "Ok" ELSE "Fail"),
     DirCheck("identity", identity[identityDir].dir),
     DirCheck("state_dir", state[stateDir].kind # "missing")}
    \cup {DegradedCheck(n, n \in degraded) : n \in WarnChecks}

HasFailures(report) == \E c \in report : c.severity = "Fail"

Checks ==
    /\ pc = "checks"
    /\ \E degraded \in SUBSET WarnChecks :
          IF HasFailures(Report(degraded)) THEN Exit ELSE Goto("statedir")
    /\ UNCHANGED <<operator, state, identity, registered, edits, repaired>>

\* ensure_state_dir.
EnsureStateDir ==
    /\ pc = "statedir"
    /\ IF state[stateDir].kind = "link"
       THEN Exit /\ UNCHANGED state
       ELSE Goto("identity") /\ state' = [state EXCEPT ![stateDir].kind = "dir"]
    /\ UNCHANGED <<operator, identity, registered, edits, repaired>>

\* load_root_certs, when a bundle is configured.
RootCertsLoad == cfg["tls_ca_path"] = None \/ pem

\* read_keypair: the key is there, and its owner and mode are as they should be.
KeypairLoads == identity[identityDir].key = "private"

\* load_machine_identity: the server is the record's.
LoadIdentity ==
    /\ pc = "identity"
    /\ identity[identityDir].record # None
    /\ IF KeypairLoads
       THEN pc' = "recover" /\ target' = identity[identityDir].record /\ UNCHANGED cfg
       ELSE Exit
    /\ UNCHANGED <<operator, state, identity, registered, edits, repaired>>

ValidateToken(t) == t = "good"

\* ensure_enrolled up to the first attempt: what is checked here ends the start.
BeginEnrollment ==
    /\ pc = "identity"
    /\ identity[identityDir].record = None
    /\ IF ValidateToken(token) /\ RootCertsLoad THEN Goto("enroll") ELSE Exit
    /\ UNCHANGED <<operator, state, identity, registered, edits, repaired>>

\* enrollment.rs: validate_server_url wants https whatever the configuration allows.
EnrollmentServerUrl(url) == url \in Servers

\* Letters, digits and inner hyphens; host_facts passes on any name there is.
ValidateHostname(name) == name \notin {"", "web_1", "-web"}

\* load_or_generate_keypair.
CanHaveKeypair ==
    KeypairLoads \/ (identity[identityDir].key = None /\ identityDir \in ReadWritePaths)

\* What enroll checks before it asks the server.
Asks ==
    /\ EnrollmentServerUrl(cfg["server_url"])
    /\ ValidateHostname(hostname)
    /\ CanHaveKeypair

\* Mutant: an enrollment always writes the server's key.
PinAlways(pin, key) == IF key = None THEN pin ELSE key

\* pin_bundle_signing_key: only where nothing is pinned.
PinBundleSigningKey(pin, key) ==
    IF cfg["bundle_signing_public_key"] # None \/ pin # None THEN pin ELSE key

\* One successful attempt: the server registers the machine, the record is
\* written, and the key the server sent, if any, is pinned; when the pin
\* cannot be written the start fails with the record in place.
Enroll ==
    /\ pc = "enroll"
    /\ Asks
    /\ identityDir \in ReadWritePaths
    /\ LET server == cfg["server_url"]
       IN /\ identity' = [identity EXCEPT ![identityDir].record = server,
                                          ![identityDir].key = "private"]
          /\ registered' = registered \cup {<<server, identityDir>>}
          /\ \/ /\ \E key \in {None, BundleSigningKey[server]} :
                      state' = [state EXCEPT ![stateDir].pin = PinBundleSigningKey(@, key)]
                /\ pc' = "recover"
                /\ target' = server
                /\ UNCHANGED cfg
             \/ /\ ~repaired
                /\ Exit
                /\ UNCHANGED state
    /\ UNCHANGED <<operator, edits, repaired>>

\* An attempt that fails is made again after a delay, whatever the reason; it
\* may have left a keypair, or have been registered and not recorded.
EnrollFails ==
    /\ pc = "enroll"
    /\ repaired => ~Asks
    /\ \/ UNCHANGED <<identity, registered>>
       \/ /\ Asks
          /\ identity' = [identity EXCEPT ![identityDir].key = "private"]
          /\ \/ UNCHANGED registered
             \/ registered' = registered \cup {<<cfg["server_url"], identityDir>>}
    /\ Goto("enroll")
    /\ UNCHANGED <<operator, state, edits, repaired>>

\* The keypair once more, the generation and the last status.
Recover ==
    /\ pc = "recover"
    /\ IF KeypairLoads /\ state[stateDir].sound THEN Goto("clients") ELSE Exit
    /\ UNCHANGED <<operator, state, identity, registered, edits, repaired>>

\* Mutant: the clients talk to the configured server.
ClientsFromConfig ==
    /\ pc = "clients"
    /\ IF RootCertsLoad
       THEN pc' = "serving" /\ target' = cfg["server_url"] /\ UNCHANGED cfg
       ELSE Exit
    /\ UNCHANGED <<operator, state, identity, registered, edits, repaired>>

\* The transports, the heartbeat client and the sync service: target is the
\* server of the identity.
Clients ==
    /\ pc = "clients"
    /\ IF RootCertsLoad THEN Goto("serving") ELSE Exit
    /\ UNCHANGED <<operator, state, identity, registered, edits, repaired>>

\* A pass with a bundle of the target: persist_pin_if_needed pins its key when
\* there is no pin.
SyncPass ==
    /\ pc = "serving"
    /\ state' = [state EXCEPT ![stateDir].pin =
                    IF cfg["bundle_signing_public_key"] # None \/ @ # None THEN @
                    ELSE BundleSigningKey[target]]
    /\ Goto("serving")
    /\ UNCHANGED <<operator, identity, registered, edits, repaired>>

\* A signal, a crash, a reboot.
Stop ==
    /\ pc # "off"
    /\ ~repaired
    /\ Exit
    /\ UNCHANGED <<operator, state, identity, registered, edits, repaired>>

-----------------------------------------------------------------------------
(* The operator.                                                            *)

Edit ==
    /\ edits < MaxEdits /\ ~repaired
    /\ edits' = edits + 1
    /\ UNCHANGED <<pc, cfg, target, registered, repaired>>

EditSetting ==
    /\ Edit
    /\ \E f \in Edited, t \in UNION {Texts(f) : f \in Edited} \cup {Absent} :
          /\ t \in Texts(f) \cup {Absent}
          /\ \/ file' = [file EXCEPT ![f] = t] /\ UNCHANGED env
             \/ env' = [env EXCEPT ![f] = t] /\ UNCHANGED file
    /\ UNCHANGED <<token, hostname, pem, state, identity>>

EditHost ==
    /\ Edit
    /\ \/ token' \in {"unset", "junk"} /\ UNCHANGED <<hostname, pem>>
       \/ hostname' \in {"web-1", "web_1"} \ {hostname} /\ UNCHANGED <<token, pem>>
       \/ pem' = ~pem /\ UNCHANGED <<token, hostname>>
    /\ UNCHANGED <<file, env, state, identity>>

\* A directory moved behind a link, a file damaged, a mode changed, an
\* identity removed with or without its directory.
DisturbFiles ==
    /\ Edit
    /\ \/ /\ \E p \in StatePaths :
                \/ state' = [state EXCEPT ![p].kind = "link"]
                \/ state' = [state EXCEPT ![p].sound = FALSE]
          /\ UNCHANGED identity
       \/ /\ \E p \in IdentityPaths :
                \/ identity[p].key # None /\ identity' = [identity EXCEPT ![p].key = "exposed"]
                \/ identity' = [identity EXCEPT ![p].key = None]
                \/ \E d \in BOOLEAN :
                      identity' = [identity EXCEPT ![p] = [dir |-> d, record |-> None, key |-> None]]
          /\ UNCHANGED state
    /\ UNCHANGED operator

\* Everything is put right, an identity without its key removed, and the agent
\* restarted; nothing is disturbed any more and the server answers.
Repair ==
    /\ ~repaired
    /\ repaired' = TRUE
    /\ file' = Installed /\ env' = NoOverride
    /\ token' = "good" /\ hostname' = "web-1" /\ pem' = TRUE
    /\ state' = [p \in StatePaths |-> [state[p] EXCEPT !.kind = IF @ = "link" THEN "missing" ELSE @,
                                                       !.sound = TRUE]]
    /\ identity' = [p \in IdentityPaths |->
                       [dir |-> TRUE,
                        record |-> IF identity[p].key = "private" THEN identity[p].record ELSE None,
                        key |-> IF identity[p].key = "private" THEN "private" ELSE None]]
    /\ Exit
    /\ edits' = MaxEdits
    /\ UNCHANGED registered

Process ==
    \/ Start \/ Load \/ Checks \/ EnsureStateDir \/ LoadIdentity \/ BeginEnrollment \/ Enroll
    \/ Recover \/ Clients

Next ==
    \/ Process \/ EnrollFails \/ SyncPass \/ Stop
    \/ EditSetting \/ EditHost \/ DisturbFiles \/ Repair

Spec == Init /\ [][Next]_vars

\* The process goes on while nothing stops it, and systemd restarts it.  The
\* ping of helper_check is assumed to return: against a helper that listens and
\* never accepts its connect would not (HelperChannel).
FairSpec == Spec /\ WF_vars(Process)

-----------------------------------------------------------------------------
(* Properties.                                                              *)

\* Whatever the configuration says by now, an agent that has an identity talks
\* to a server that enrolled that identity, over https (daemon.rs builds both
\* clients from identity.server_url): no later edit of server_url or of
\* allow_insecure_tls, and no restart, sends signed requests elsewhere.
TalksToEnrolledServer ==
    pc \in {"recover", "clients", "serving"} => <<target, identityDir>> \in registered

\* runtime_state.rs: "re-running enrollment recovery never clobbers an
\* established pin": a key pinned in a state directory is the one there for
\* ever, through restarts, lost identities and enrollment with another server.
PinIsKept ==
    [][\A p \in StatePaths : state[p].pin # None => state'[p].pin = state[p].pin]_vars

\* Once the configuration and the host are as installed, the next starts get
\* the agent into service and it stays there, whatever was changed before,
\* at whatever step of an earlier start, and whatever that left behind.
RepairedGetsInService == repaired ~> [](pc = "serving")
=============================================================================
