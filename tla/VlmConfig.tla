------------------------------ MODULE VlmConfig ------------------------------
(***************************************************************************)
(* From a YAML file and the config.json of the model directory to a        *)
(* service: vlm_config.cpp and vlm_model_factory.cpp.  config.json is read *)
(* up to three times on the way, and an installation may put it there in   *)
(* between.  A string is known by where it came from ("" when empty); the  *)
(* model directory is not "/", the only one that gives no name, and a      *)
(* config.json names a vision model.                                       *)
(***************************************************************************)
EXTENDS Integers

CONSTANTS
    Absent,      \* a key that is missing, or of the wrong type
    Ports,       \* port numbers a file may hold
    Numbers,     \* other numbers a file may hold
    Install      \* TRUE: config.json may appear while a service is created

ASSUME NumberAssumption == /\ Ports \subseteq Int /\ Numbers \subseteq Int
                           /\ Absent \notin Ports /\ Absent \notin Numbers
                           /\ Install \in BOOLEAN

VARIABLES
    yaml,        \* contents of the YAML file
    manifest,    \* contents of config.json
    installed,   \* config.json can be read
    changed,     \* history: it appeared while a service was created
    pc,          \* where the creation is
    config,      \* the configuration built so far
    checked,     \* history: the configuration after the first validation
    service      \* "none" or the backend of the service returned

vars == <<yaml, manifest, installed, changed, pc, config, checked, service>>

-----------------------------------------------------------------------------
Backends == {"direct", "server"}

(* "map": the value of backend_type is not a scalar.                       *)
Yaml == [model_dir : BOOLEAN, text_model_path : BOOLEAN,
         port : Ports \cup {Absent}, backend : Backends \cup {Absent, "map"},
         threads : Numbers \cup {Absent}, batch_threads : Numbers \cup {Absent},
         reasoning_budget : Numbers \cup {Absent}]

Manifest == [model_name : BOOLEAN, text_model_path : BOOLEAN,
             port : Ports \cup {Absent}, backend : Backends \cup {Absent},
             max_tokens : Numbers \cup {Absent}]

Or(v, w) == IF v = Absent THEN w ELSE v

(* LoadVlmConfigFromYaml on a default VlmModelConfig.                      *)
LoadVlmConfigFromYaml(y) ==
    [model_dir |-> y.model_dir, model_name |-> "",
     text_model_path |-> IF y.text_model_path THEN "yaml" ELSE "",
     vision |-> "",
     port |-> Or(y.port, 8086), backend |-> Or(y.backend, "direct"),
     smt_config_dir |-> "", cpu_affinity |-> "",
     max_tokens |-> 150,
     threads |-> Or(y.threads, 8), batch_threads |-> Or(y.batch_threads, 8),
     reasoning_budget |-> Or(y.reasoning_budget, -1)]

(* LoadVlmManifest: what config.json names wins over the YAML file.        *)
LoadVlmManifest(c, present, m) ==
    IF ~present THEN c
    ELSE [c EXCEPT
            !.model_name = IF m.model_name THEN "manifest" ELSE @,
            !.text_model_path = IF m.text_model_path THEN "manifest" ELSE @,
            !.vision = IF @ = "" THEN "manifest" ELSE @,
            !.port = IF m.port # Absent /\ m.port > 0 THEN m.port ELSE @,
            !.backend = Or(m.backend, @),
            !.max_tokens = IF m.max_tokens # Absent /\ m.max_tokens > 0
                           THEN m.max_tokens ELSE @]

Positive(v, w) == IF v <= 0 THEN w ELSE v

ValidPort(p) == IF p <= 0 \/ p > 65535 THEN 8080 ELSE p

(* v, or else w if the backend is the server.                              *)
ForServer(c, v, w) == IF c.backend = "server" /\ v = "" THEN w ELSE v

(* Mutant: the port is checked against its lower end only.                 *)
SanitizeLow(c) ==
    LET threads == Positive(c.threads, 4)
    IN  [c EXCEPT !.max_tokens = Positive(@, 512),
                  !.threads = threads,
                  !.batch_threads = Positive(@, threads),
                  !.reasoning_budget = Positive(@, 1024),
                  !.port = Positive(@, 8080),
                  !.smt_config_dir = ForServer(c, @, "dir"),
                  !.cpu_affinity = ForServer(c, @, "0-7")]

(* Mutant: every validation leaves one more core to the host.              *)
SanitizeReserves(c) ==
    LET threads == Positive(c.threads - 1, 4)
    IN  [c EXCEPT !.max_tokens = Positive(@, 512),
                  !.threads = threads,
                  !.batch_threads = Positive(@, threads),
                  !.reasoning_budget = Positive(@, 1024),
                  !.port = ValidPort(@),
                  !.smt_config_dir = ForServer(c, @, "dir"),
                  !.cpu_affinity = ForServer(c, @, "0-7")]

Sanitize(c) ==
    LET threads == Positive(c.threads, 4)
    IN  [c EXCEPT !.max_tokens = Positive(@, 512),
                  !.threads = threads,
                  !.batch_threads = Positive(@, threads),
                  !.reasoning_budget = Positive(@, 1024),
                  !.port = ValidPort(@),
                  !.smt_config_dir = ForServer(c, @, "dir"),
                  !.cpu_affinity = ForServer(c, @, "0-7")]

Named(c) == [c EXCEPT !.model_name = IF @ = "" THEN "dir" ELSE @]

(* Mutant: config.json is not looked at.                                   *)
ValidateAlone(c, present, m) == Sanitize(Named(c))

(* ValidateVlmModelConfig on a configuration with a model_dir.             *)
ValidateVlmModelConfig(c, present, m) ==
    Sanitize(IF c.text_model_path = ""
             THEN LoadVlmManifest(Named(c), present, m) ELSE Named(c))

-----------------------------------------------------------------------------
Unset == LoadVlmConfigFromYaml(
            [model_dir |-> FALSE, text_model_path |-> FALSE, port |-> Absent,
             backend |-> Absent, threads |-> Absent, batch_threads |-> Absent,
             reasoning_budget |-> Absent])

Init ==
    /\ yaml \in Yaml /\ manifest \in Manifest
    /\ installed \in BOOLEAN /\ changed = FALSE
    /\ pc = "yaml" /\ config = Unset /\ checked = Unset /\ service = "none"

(* CreateVlmServiceFromConfig reads the file, and gives up if it cannot be *)
(* read or parsed.  Numbers and strings of the wrong type are skipped; a   *)
(* backend_type that is no scalar is an exception nobody catches.          *)
ReadYaml ==
    /\ pc = "yaml"
    /\ \/ pc' = "failed" /\ UNCHANGED config
       \/ yaml.backend = "map" /\ pc' = "threw" /\ UNCHANGED config
       \/ /\ yaml.backend # "map" /\ pc' = "manifest"
          /\ config' = LoadVlmConfigFromYaml(yaml)
    /\ UNCHANGED <<yaml, manifest, installed, changed, checked, service>>

(* A caller that builds the same configuration by hand.                    *)
BuildByHand ==
    /\ pc = "yaml" /\ yaml.backend # "map"
    /\ config' = LoadVlmConfigFromYaml(yaml)
    /\ pc' = "create"
    /\ UNCHANGED <<yaml, manifest, installed, changed, checked, service>>

ReadManifest ==
    /\ pc = "manifest"
    /\ config' = LoadVlmManifest(config, installed /\ config.model_dir, manifest)
    /\ pc' = "validate"
    /\ UNCHANGED <<yaml, manifest, installed, changed, checked, service>>

Validate ==
    /\ pc = "validate"
    /\ IF config.model_dir
       THEN /\ config' = ValidateVlmModelConfig(config, installed, manifest)
            /\ pc' = "create"
       ELSE pc' = "failed" /\ UNCHANGED config
    /\ checked' = config'
    /\ UNCHANGED <<yaml, manifest, installed, changed, service>>

(* CreateVlmService validates a copy, for the second time if it was called *)
(* by CreateVlmServiceFromConfig.                                          *)
CreateVlmService ==
    /\ pc = "create"
    /\ IF config.model_dir
       THEN /\ config' = ValidateVlmModelConfig(config, installed, manifest)
            /\ pc' = "initialize"
       ELSE pc' = "failed" /\ UNCHANGED config
    /\ UNCHANGED <<yaml, manifest, installed, changed, checked, service>>

(* The server backend accepts every configuration with a model_dir; the    *)
(* direct one needs a text model, which it may fail to load.               *)
Initialize ==
    /\ pc = "initialize"
    /\ \/ /\ config.backend = "server" \/ config.text_model_path # ""
          /\ service' = config.backend /\ pc' = "created"
       \/ /\ config.backend = "direct"
          /\ pc' = "failed" /\ UNCHANGED service
    /\ UNCHANGED <<yaml, manifest, installed, changed, config, checked>>

(* An installation in another process completes the model directory.       *)
Installed ==
    /\ Install /\ ~installed
    /\ pc \in {"manifest", "validate", "create", "initialize"}
    /\ installed' = TRUE /\ changed' = TRUE
    /\ UNCHANGED <<yaml, manifest, pc, config, checked, service>>

Next == \/ ReadYaml \/ BuildByHand \/ ReadManifest \/ Validate
        \/ CreateVlmService \/ Initialize \/ Installed

Spec == Init /\ [][Next]_vars

-----------------------------------------------------------------------------
PortNumbers == 1..65535

(* Whatever the two files hold and whenever config.json appears, a service *)
(* runs with its numbers in range and with its strings set: nothing read   *)
(* late escapes validation (ValidateVlmModelConfig).  The one string it    *)
(* lets through empty is text_model_path, for the server backend only and  *)
(* only when no file names a text model that was readable in time; such a  *)
(* service exists and starts its llama-server with an empty -m.            *)
ServiceIsSound ==
    service # "none" =>
        /\ config.port \in PortNumbers
        /\ \A n \in {config.max_tokens, config.threads, config.batch_threads,
                     config.reasoning_budget} : n > 0
        /\ config.model_name # ""
        /\ service = "server" => /\ config.smt_config_dir # ""
                                 /\ config.cpu_affinity # ""
        /\ config.text_model_path = "" =>
               /\ service = "server" /\ ~yaml.text_model_path
               /\ manifest.text_model_path /\ installed => changed

(* The second validation of CreateVlmServiceFromConfig changes nothing     *)
(* that the first has settled, unless config.json has just appeared.       *)
RevalidationIsStable ==
    (pc \in {"initialize", "created"} /\ checked # Unset /\ ~changed)
        => config = checked

(* A YAML file without a text model and the same configuration built by    *)
(* hand give the same service: config.json is merged once or thrice with   *)
(* the same result (CreateVlmServiceFromConfig, CreateVlmService).         *)
SameServiceBothWays ==
    (pc = "created" /\ ~changed /\ ~yaml.text_model_path) =>
        config = ValidateVlmModelConfig(LoadVlmConfigFromYaml(yaml), installed,
                                        manifest)
=============================================================================
