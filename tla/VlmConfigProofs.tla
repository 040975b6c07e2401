--------------------------- MODULE VlmConfigProofs ---------------------------
(***************************************************************************)
(* Proofs about VlmConfig, for every set of port numbers and of numbers    *)
(* the two files may hold.  The inductive invariant says at each point of  *)
(* the creation which validated configuration config is:                   *)
(*   Typed    the files, and config as a record of strings and integers,   *)
(*   Settled  after a validation config is Clean, and the same validation  *)
(*            again would change nothing,                                  *)
(*   Merged   for a YAML file without a text model, config is what the     *)
(*            route through CreateVlmService alone gives,                  *)
(*   Unnamed  config has no text model only if no file names one that was  *)
(*            readable in time.                                            *)
(***************************************************************************)
EXTENDS VlmConfig, TLAPS

Strings == {"", "yaml", "manifest", "dir", "0-7"}

Config == [model_dir : BOOLEAN, model_name : Strings, text_model_path : Strings,
           vision : Strings, port : Int, backend : Backends,
           smt_config_dir : Strings, cpu_affinity : Strings, max_tokens : Int,
           threads : Int, batch_threads : Int, reasoning_budget : Int]

Typed ==
    /\ yaml \in Yaml /\ manifest \in Manifest
    /\ installed \in BOOLEAN /\ changed \in BOOLEAN
    /\ pc \in {"yaml", "threw", "manifest", "validate", "create", "initialize",
               "created", "failed"}
    /\ config \in Config /\ checked \in Config
    /\ service \in Backends \cup {"none"}

(* What ServiceIsSound asks of a configuration, whatever the backend.      *)
InRange(p) == p \in PortNumbers
Above(n)   == n \in Int /\ n > 0

Clean(c) ==
    /\ InRange(c.port)
    /\ Above(c.max_tokens) /\ Above(c.threads) /\ Above(c.batch_threads)
    /\ Above(c.reasoning_budget)
    /\ c.model_name # ""
    /\ c.backend = "server" => c.smt_config_dir # "" /\ c.cpu_affinity # ""

Settles(c) == ValidateVlmModelConfig(c, installed, manifest)
FromYaml   == LoadVlmConfigFromYaml(yaml)

Underway == {"manifest", "validate", "create"}
Ready    == {"initialize", "created"}

Settled ==
    /\ pc \in Ready => Clean(config)
    /\ service # "none" => /\ pc = "created" /\ service = config.backend
                           /\ service = "direct" => config.text_model_path # ""
    /\ pc \in {"yaml", "manifest"} => checked = Unset
    /\ (pc = "create" /\ checked # Unset) =>
           checked = config /\ (~changed => Settles(config) = config)
    /\ (pc \in Ready /\ checked # Unset /\ ~changed) => config = checked

Merged ==
    /\ pc \in Underway \cup Ready => yaml.backend # "map"
    /\ pc = "manifest" => config = FromYaml
    /\ (~changed /\ ~yaml.text_model_path) =>
           /\ pc \in Underway => Settles(config) = Settles(FromYaml)
           /\ pc \in Ready => config = Settles(FromYaml)

Unnamed ==
    config.text_model_path = "" =>
        /\ pc \in Underway \cup Ready => ~yaml.text_model_path
        /\ pc \in Ready => (manifest.text_model_path /\ installed => changed)

IInv == Typed /\ Settled /\ Merged /\ Unnamed

-----------------------------------------------------------------------------
(* A configuration is what its twelve fields are.                          *)
LEMMA SameFields ==
    ASSUME NEW c \in Config, NEW d \in Config,
           c.model_dir = d.model_dir, c.model_name = d.model_name,
           c.text_model_path = d.text_model_path, c.vision = d.vision,
           c.port = d.port, c.backend = d.backend,
           c.smt_config_dir = d.smt_config_dir, c.cpu_affinity = d.cpu_affinity,
           c.max_tokens = d.max_tokens, c.threads = d.threads,
           c.batch_threads = d.batch_threads,
           c.reasoning_budget = d.reasoning_budget
    PROVE  c = d
BY DEF Config

(* The numbers of a validated configuration, without their values.         *)
Tokens(c)  == Positive(c.max_tokens, 512)
Cores(c)   == Positive(c.threads, 4)
Batch(c)   == Positive(c.batch_threads, Cores(c))
Budget(c)  == Positive(c.reasoning_budget, 1024)

(* A port in range replaces any other.                                     *)
LEMMA PortRange == ASSUME NEW p \in Int PROVE ValidPort(p) \in Int /\ InRange(ValidPort(p))
<1> DEFINE top == 65535
<1>1. PortNumbers = 1..top
  BY DEF PortNumbers
<1>2. /\ ValidPort(p) \in Int /\ top \in Int
      /\ ValidPort(p) >= 1 /\ ValidPort(p) <= top
  BY SMT DEF ValidPort
<1> HIDE DEF top
<1>3. ValidPort(p) \in 1..top
  BY <1>2, SMT
<1> QED BY <1>1, <1>2, <1>3, Zenon DEF InRange

(* A positive number replaces any other.                                   *)
LEMMA PositiveIs == ASSUME NEW v \in Int, NEW w, Above(w) PROVE Above(Positive(v, w))
BY DEF Positive, Above

(* The four numbers are positive.                                          *)
LEMMA NumbersAbove ==
    ASSUME NEW c \in Config
    PROVE  Above(Tokens(c)) /\ Above(Cores(c)) /\ Above(Batch(c)) /\ Above(Budget(c))
<1>1. /\ c.max_tokens \in Int /\ c.threads \in Int /\ c.batch_threads \in Int
      /\ c.reasoning_budget \in Int
  BY DEF Config
<1>2. Above(512)
  BY DEF Above
<1>3. Above(4)
  BY DEF Above
<1>4. Above(1024)
  BY DEF Above
<1>5. Above(Tokens(c))
  BY <1>1, <1>2, PositiveIs DEF Tokens
<1>6. Above(Cores(c))
  BY <1>1, <1>3, PositiveIs DEF Cores
<1>7. Above(Batch(c))
  BY <1>1, <1>6, PositiveIs DEF Batch
<1>8. Above(Budget(c))
  BY <1>1, <1>4, PositiveIs DEF Budget
<1> QED BY <1>5, <1>6, <1>7, <1>8

(* What ValidateVlmModelConfig does to each field in its last part.        *)
LEMMA SanitizeFields ==
    ASSUME NEW c \in Config
    PROVE  /\ Sanitize(c) \in Config
           /\ Sanitize(c).model_dir = c.model_dir
           /\ Sanitize(c).model_name = c.model_name
           /\ Sanitize(c).text_model_path = c.text_model_path
           /\ Sanitize(c).vision = c.vision
           /\ Sanitize(c).backend = c.backend
           /\ Sanitize(c).port = ValidPort(c.port)
           /\ Sanitize(c).max_tokens = Tokens(c)
           /\ Sanitize(c).threads = Cores(c)
           /\ Sanitize(c).batch_threads = Batch(c)
           /\ Sanitize(c).reasoning_budget = Budget(c)
           /\ Sanitize(c).smt_config_dir = ForServer(c, c.smt_config_dir, "dir")
           /\ Sanitize(c).cpu_affinity = ForServer(c, c.cpu_affinity, "0-7")
<1> DEFINE tokens  == Tokens(c)
           threads == Cores(c)
           batch   == Batch(c)
           budget  == Budget(c)
           port    == ValidPort(c.port)
           dir     == ForServer(c, c.smt_config_dir, "dir")
           cpus    == ForServer(c, c.cpu_affinity, "0-7")
<1>0. c.port \in Int
  BY DEF Config
<1>1. /\ tokens \in Int /\ threads \in Int /\ batch \in Int /\ budget \in Int
      /\ port \in Int
  BY <1>0, NumbersAbove, PortRange DEF Above
<1>2. dir \in Strings /\ cpus \in Strings
  BY DEF Config, Strings, ForServer
<1>3. Sanitize(c) = [c EXCEPT !.max_tokens = tokens, !.threads = threads,
                              !.batch_threads = batch, !.reasoning_budget = budget,
                              !.port = port, !.smt_config_dir = dir,
                              !.cpu_affinity = cpus]
  BY DEF Sanitize, Tokens, Cores, Batch, Budget
<1> HIDE DEF tokens, threads, batch, budget, port, dir, cpus
<1>4. /\ Sanitize(c) \in Config
      /\ Sanitize(c).model_dir = c.model_dir
      /\ Sanitize(c).model_name = c.model_name
      /\ Sanitize(c).text_model_path = c.text_model_path
      /\ Sanitize(c).vision = c.vision /\ Sanitize(c).backend = c.backend
      /\ Sanitize(c).port = port /\ Sanitize(c).max_tokens = tokens
      /\ Sanitize(c).threads = threads /\ Sanitize(c).batch_threads = batch
      /\ Sanitize(c).reasoning_budget = budget
      /\ Sanitize(c).smt_config_dir = dir /\ Sanitize(c).cpu_affinity = cpus
  <2>1. Sanitize(c) \in Config
    BY <1>1, <1>2, <1>3, ZenonT(60) DEF Config
  <2>2. /\ Sanitize(c).model_dir = c.model_dir
        /\ Sanitize(c).model_name = c.model_name
        /\ Sanitize(c).text_model_path = c.text_model_path
        /\ Sanitize(c).vision = c.vision /\ Sanitize(c).backend = c.backend
    BY <1>3 DEF Config
  <2>3. /\ Sanitize(c).port = port /\ Sanitize(c).max_tokens = tokens
        /\ Sanitize(c).threads = threads /\ Sanitize(c).batch_threads = batch
        /\ Sanitize(c).reasoning_budget = budget
        /\ Sanitize(c).smt_config_dir = dir /\ Sanitize(c).cpu_affinity = cpus
    BY <1>3 DEF Config
  <2> QED BY <2>1, <2>2, <2>3, Zenon
<1> QED BY <1>4, Zenon DEF tokens, threads, batch, budget, port, dir, cpus

(* The new value of a field that config.json may name.                     *)
Over(v, w) == IF v # Absent /\ v > 0 THEN v ELSE w
Told(b, w) == IF b THEN "manifest" ELSE w

(* What config.json does to each field, if it can be read.                 *)
LEMMA ManifestFields ==
    ASSUME NEW c \in Config, NEW m \in Manifest
    PROVE  /\ LoadVlmManifest(c, TRUE, m) \in Config
           /\ LoadVlmManifest(c, TRUE, m).model_dir = c.model_dir
           /\ LoadVlmManifest(c, TRUE, m).model_name = Told(m.model_name, c.model_name)
           /\ LoadVlmManifest(c, TRUE, m).text_model_path
                  = Told(m.text_model_path, c.text_model_path)
           /\ LoadVlmManifest(c, TRUE, m).vision = Told(c.vision = "", c.vision)
           /\ LoadVlmManifest(c, TRUE, m).backend = Or(m.backend, c.backend)
           /\ LoadVlmManifest(c, TRUE, m).port = Over(m.port, c.port)
           /\ LoadVlmManifest(c, TRUE, m).max_tokens = Over(m.max_tokens, c.max_tokens)
           /\ LoadVlmManifest(c, TRUE, m).threads = c.threads
           /\ LoadVlmManifest(c, TRUE, m).batch_threads = c.batch_threads
           /\ LoadVlmManifest(c, TRUE, m).reasoning_budget = c.reasoning_budget
           /\ LoadVlmManifest(c, TRUE, m).smt_config_dir = c.smt_config_dir
           /\ LoadVlmManifest(c, TRUE, m).cpu_affinity = c.cpu_affinity
<1>1. /\ Told(m.model_name, c.model_name) \in Strings
      /\ Told(m.text_model_path, c.text_model_path) \in Strings
      /\ Told(c.vision = "", c.vision) \in Strings
  BY DEF Config, Strings, Told
<1>2. Or(m.backend, c.backend) \in Backends
  BY DEF Config, Manifest, Or
<1>3. /\ Over(m.port, c.port) \in Int
      /\ Over(m.max_tokens, c.max_tokens) \in Int
  BY NumberAssumption DEF Config, Manifest, Over
<1>4. LoadVlmManifest(c, TRUE, m) =
          [c EXCEPT !.model_name = Told(m.model_name, c.model_name),
                    !.text_model_path = Told(m.text_model_path, c.text_model_path),
                    !.vision = Told(c.vision = "", c.vision),
                    !.port = Over(m.port, c.port),
                    !.backend = Or(m.backend, c.backend),
                    !.max_tokens = Over(m.max_tokens, c.max_tokens)]
  BY DEF LoadVlmManifest, Told, Over
<1> QED BY <1>1, <1>2, <1>3, <1>4, ZenonT(60) DEF Config

(* The name of a model without one is that of its directory.               *)
LEMMA NamedFields ==
    ASSUME NEW c \in Config
    PROVE  /\ Named(c) \in Config /\ Named(c).model_name # ""
           /\ c.model_name # "" => Named(c).model_name = c.model_name
           /\ c.model_name = "" => Named(c).model_name = "dir"
           /\ Named(c).model_dir = c.model_dir
           /\ Named(c).text_model_path = c.text_model_path
           /\ Named(c).vision = c.vision
           /\ Named(c).backend = c.backend /\ Named(c).port = c.port
           /\ Named(c).max_tokens = c.max_tokens
           /\ Named(c).threads = c.threads
           /\ Named(c).batch_threads = c.batch_threads
           /\ Named(c).reasoning_budget = c.reasoning_budget
           /\ Named(c).smt_config_dir = c.smt_config_dir
           /\ Named(c).cpu_affinity = c.cpu_affinity
BY DEF Config, Strings, Named

(* What is left to validation once config.json is read or not needed.      *)
Completed(c, b, m) == IF c.text_model_path = "" THEN LoadVlmManifest(Named(c), b, m)
                                                ELSE Named(c)

(* Validation gives a clean configuration whatever it is given.            *)
LEMMA SanitizedIsClean ==
    ASSUME NEW l \in Config, l.model_name # ""
    PROVE  Sanitize(l) \in Config /\ Clean(Sanitize(l))
<1>1. l.port \in Int
  BY DEF Config
<1>2. InRange(Sanitize(l).port)
  BY <1>1, PortRange, SanitizeFields, Zenon
<1>6. /\ Above(Sanitize(l).max_tokens) /\ Above(Sanitize(l).threads)
      /\ Above(Sanitize(l).batch_threads) /\ Above(Sanitize(l).reasoning_budget)
  BY NumbersAbove, SanitizeFields, Zenon
<1>7. l.backend = "server" => /\ ForServer(l, l.smt_config_dir, "dir") # ""
                              /\ ForServer(l, l.cpu_affinity, "0-7") # ""
  BY DEF ForServer
<1>8. /\ Sanitize(l).backend = l.backend
      /\ Sanitize(l).smt_config_dir = ForServer(l, l.smt_config_dir, "dir")
      /\ Sanitize(l).cpu_affinity = ForServer(l, l.cpu_affinity, "0-7")
  BY SanitizeFields, Zenon
<1>9. Sanitize(l).backend = "server" => /\ Sanitize(l).smt_config_dir # ""
                                        /\ Sanitize(l).cpu_affinity # ""
  BY <1>7, <1>8, Zenon
<1>10. Sanitize(l).model_name # "" /\ Sanitize(l) \in Config
  BY SanitizeFields, Zenon
<1> QED BY <1>2, <1>6, <1>9, <1>10, Zenon DEF Clean

(* Reading config.json keeps a configuration one, with its name.           *)
LEMMA LoadedIsConfig ==
    ASSUME NEW c \in Config, NEW b \in BOOLEAN, NEW m \in Manifest
    PROVE  /\ LoadVlmManifest(c, b, m) \in Config
           /\ c.model_name # "" => LoadVlmManifest(c, b, m).model_name # ""
<1>1. CASE b
  <2>1. b = TRUE
    BY <1>1
  <2>2. LoadVlmManifest(c, TRUE, m) \in Config
    BY ManifestFields, Zenon
  <2>3. c.model_name # "" => Told(m.model_name, c.model_name) # ""
    BY DEF Told
  <2>4. c.model_name # "" => LoadVlmManifest(c, TRUE, m).model_name # ""
    BY <2>3, ManifestFields, Zenon
  <2> QED BY <2>1, <2>2, <2>4, Zenon
<1>2. CASE ~b
  BY <1>2 DEF LoadVlmManifest
<1> QED BY <1>1, <1>2

(* Validation is Sanitize of what was completed, and hence clean.          *)
LEMMA ValidatedIsClean ==
    ASSUME NEW c \in Config, NEW b \in BOOLEAN, NEW m \in Manifest
    PROVE  /\ ValidateVlmModelConfig(c, b, m) \in Config
           /\ Clean(ValidateVlmModelConfig(c, b, m))
           /\ Completed(c, b, m) \in Config
           /\ ValidateVlmModelConfig(c, b, m) = Sanitize(Completed(c, b, m))
<1>1. Named(c) \in Config /\ Named(c).model_name # ""
  BY NamedFields, Zenon
<1>2. /\ LoadVlmManifest(Named(c), b, m) \in Config
      /\ LoadVlmManifest(Named(c), b, m).model_name # ""
  BY <1>1, LoadedIsConfig, Zenon
<1>3. Completed(c, b, m) \in Config /\ Completed(c, b, m).model_name # ""
  BY <1>1, <1>2, Zenon DEF Completed
<1>4. ValidateVlmModelConfig(c, b, m) = Sanitize(Completed(c, b, m))
  BY Zenon DEF ValidateVlmModelConfig, Completed
<1> QED BY <1>3, <1>4, SanitizedIsClean, Zenon

-----------------------------------------------------------------------------
(* A validated configuration is left alone by a second validation.         *)
LEMMA SanitizeTwice ==
    ASSUME NEW c \in Config
    PROVE  Sanitize(Sanitize(c)) = Sanitize(c)
<1> DEFINE s == Sanitize(c)
           r == Sanitize(s)
<1>1. s \in Config
  BY SanitizeFields, Zenon
<1>2. r \in Config
  BY <1>1, SanitizeFields, Zenon
<1>3. /\ s.port = ValidPort(c.port) /\ c.port \in Int
      /\ s.max_tokens \in Int /\ s.max_tokens > 0 /\ s.threads \in Int /\ s.threads > 0
      /\ s.batch_threads \in Int /\ s.batch_threads > 0
      /\ s.reasoning_budget \in Int /\ s.reasoning_budget > 0
  <2>1. /\ Above(s.max_tokens) /\ Above(s.threads) /\ Above(s.batch_threads)
        /\ Above(s.reasoning_budget) /\ s.port = ValidPort(c.port)
    BY NumbersAbove, SanitizeFields, Zenon
  <2>2. c.port \in Int
    BY DEF Config
  <2> HIDE DEF s
  <2> QED BY <2>1, <2>2 DEF Above
<1>4. /\ s.backend = c.backend
      /\ s.smt_config_dir = ForServer(c, c.smt_config_dir, "dir")
      /\ s.cpu_affinity = ForServer(c, c.cpu_affinity, "0-7")
  BY SanitizeFields, Zenon
<1>5. /\ r.model_dir = s.model_dir /\ r.model_name = s.model_name
      /\ r.text_model_path = s.text_model_path /\ r.vision = s.vision
      /\ r.backend = s.backend /\ r.port = ValidPort(s.port)
      /\ r.max_tokens = Tokens(s) /\ r.threads = Cores(s)
      /\ r.batch_threads = Batch(s) /\ r.reasoning_budget = Budget(s)
      /\ r.smt_config_dir = ForServer(s, s.smt_config_dir, "dir")
      /\ r.cpu_affinity = ForServer(s, s.cpu_affinity, "0-7")
  BY <1>1, SanitizeFields, Zenon
<1> HIDE DEF s, r
<1>6. ValidPort(s.port) = s.port
  <2>1. ASSUME NEW p \in Int
        PROVE  ValidPort(ValidPort(p)) = ValidPort(p)
    BY DEF ValidPort
  <2> QED BY <1>3, <2>1, Zenon
<1>7. ASSUME NEW v \in Int, v > 0, NEW w
      PROVE  Positive(v, w) = v
  BY <1>7 DEF Positive
<1>8. Tokens(s) = s.max_tokens
  BY <1>3, <1>7 DEF Tokens
<1>9. Cores(s) = s.threads
  BY <1>3, <1>7 DEF Cores
<1>10. Batch(s) = s.batch_threads
  BY <1>3, <1>7 DEF Batch
<1>11. Budget(s) = s.reasoning_budget
  BY <1>3, <1>7 DEF Budget
<1>12. /\ ForServer(s, s.smt_config_dir, "dir") = s.smt_config_dir
       /\ ForServer(s, s.cpu_affinity, "0-7") = s.cpu_affinity
  BY <1>4 DEF ForServer
<1>13. r = s
  BY <1>1, <1>2, <1>5, <1>6, <1>8, <1>9, <1>10, <1>11, <1>12, SameFields
<1> QED BY <1>13 DEF r, s

(* A second reading of config.json finds what the first has found.         *)
LEMMA Again ==
    /\ \A v, w : Or(v, Or(v, w)) = Or(v, w)
    /\ \A v, w : Over(v, Over(v, w)) = Over(v, w)
    /\ \A b \in BOOLEAN : \A w : Told(b, Told(b, w)) = Told(b, w)
    /\ \A w : Told(w = "", w) # ""
    /\ \A w : w # "" => Told(w = "", w) = w
<1>1. \A v, w : Or(v, Or(v, w)) = Or(v, w)
  BY DEF Or
<1>2. \A v, w : Over(v, Over(v, w)) = Over(v, w)
  BY DEF Over
<1>3. \A b \in BOOLEAN : \A w : Told(b, Told(b, w)) = Told(b, w)
  BY DEF Told
<1>4. \A w : Told(w = "", w) # ""
  BY DEF Told
<1>5. \A w : w # "" => Told(w = "", w) = w
  BY DEF Told
<1> QED BY <1>1, <1>2, <1>3, <1>4, <1>5, Zenon

(* A configuration that has its name is left alone by Named.               *)
LEMMA NamedStays ==
    ASSUME NEW c \in Config, c.model_name # ""
    PROVE  Named(c) = c
<1>1. /\ Named(c) \in Config /\ Named(c).model_name = c.model_name
      /\ Named(c).model_dir = c.model_dir
      /\ Named(c).text_model_path = c.text_model_path
      /\ Named(c).vision = c.vision
      /\ Named(c).backend = c.backend /\ Named(c).port = c.port
      /\ Named(c).max_tokens = c.max_tokens
      /\ Named(c).threads = c.threads
      /\ Named(c).batch_threads = c.batch_threads
      /\ Named(c).reasoning_budget = c.reasoning_budget
      /\ Named(c).smt_config_dir = c.smt_config_dir
      /\ Named(c).cpu_affinity = c.cpu_affinity
  BY NamedFields, Zenon
<1> QED BY <1>1, SameFields

(* config.json is asked for a text model only where there is none, and     *)
(* leaves a configuration without one only if it names none.               *)
LEMMA LoadedText ==
    ASSUME NEW c \in Config, NEW b \in BOOLEAN, NEW m \in Manifest,
           LoadVlmManifest(c, b, m).text_model_path = ""
    PROVE  c.text_model_path = "" /\ ~(b /\ m.text_model_path)
<1>1. CASE b
  <2>1. b = TRUE
    BY <1>1
  <2>2. Told(m.text_model_path, c.text_model_path) = ""
    BY <2>1, ManifestFields, Zenon
  <2> QED BY <2>2 DEF Told
<1>2. CASE ~b
  <2>1. LoadVlmManifest(c, b, m) = c
    BY <1>2, Zenon DEF LoadVlmManifest
  <2> QED BY <1>2, <2>1
<1> QED BY <1>1, <1>2

LEMMA ValidatedText ==
    ASSUME NEW c \in Config, NEW b \in BOOLEAN, NEW m \in Manifest,
           ValidateVlmModelConfig(c, b, m).text_model_path = ""
    PROVE  c.text_model_path = "" /\ ~(b /\ m.text_model_path)
<1>1. /\ Completed(c, b, m) \in Config
      /\ ValidateVlmModelConfig(c, b, m) = Sanitize(Completed(c, b, m))
  BY ValidatedIsClean, Zenon
<1>2. Completed(c, b, m).text_model_path = ""
  BY <1>1, SanitizeFields, Zenon
<1>3. Named(c) \in Config /\ Named(c).text_model_path = c.text_model_path
  BY NamedFields, Zenon
<1>4. c.text_model_path = ""
  BY <1>2, <1>3, Zenon DEF Completed
<1>5. LoadVlmManifest(Named(c), b, m).text_model_path = ""
  BY <1>2, <1>4, Zenon DEF Completed
<1> QED BY <1>3, <1>4, <1>5, LoadedText, Zenon

(* Validation after validation: the second of CreateVlmServiceFromConfig.  *)
LEMMA ValidationSettles ==
    ASSUME NEW c \in Config, NEW b \in BOOLEAN, NEW m \in Manifest
    PROVE  ValidateVlmModelConfig(ValidateVlmModelConfig(c, b, m), b, m)
               = ValidateVlmModelConfig(c, b, m)
<1> DEFINE x == Completed(c, b, m)
           s == Sanitize(x)
           y == Completed(s, b, m)
<1>1. x \in Config /\ s \in Config /\ Clean(s)
  BY ValidatedIsClean, Zenon
<1>2. Sanitize(s) = s
  BY <1>1, SanitizeTwice, Zenon
<1>3. Named(s) = s
  BY <1>1, NamedStays, Zenon DEF Clean
<1>4. /\ s.model_name = x.model_name /\ s.text_model_path = x.text_model_path
      /\ s.vision = x.vision /\ s.backend = x.backend
      /\ s.port = ValidPort(x.port) /\ s.max_tokens = Tokens(x)
  BY <1>1, SanitizeFields, Zenon
<1>5. ASSUME s.text_model_path # "" \/ ~b
      PROVE  Sanitize(y) = s
  <2>1. y = s
    <3>1. CASE s.text_model_path # ""
      BY <1>3, <3>1, Zenon DEF Completed
    <3>2. CASE ~b
      BY <1>3, <3>2, Zenon DEF Completed, LoadVlmManifest
    <3> QED BY <1>5, <3>1, <3>2
  <2> QED BY <1>2, <2>1
<1>6. ASSUME s.text_model_path = "", b
      PROVE  Sanitize(y) = s
  <2> DEFINE n == Named(c)
             l == LoadVlmManifest(n, TRUE, m)
             z == LoadVlmManifest(s, TRUE, m)
  <2>0. b = TRUE
    BY <1>6
  <2>1. n \in Config /\ n.text_model_path = c.text_model_path
    BY NamedFields, Zenon
  <2>2. c.text_model_path = "" /\ x = l
    <3>1. x.text_model_path = ""
      BY <1>4, <1>6
    <3>2. CASE c.text_model_path # ""
      <4>1. x = n
        BY <3>2, Zenon DEF Completed
      <4> QED BY <2>1, <3>1, <3>2, <4>1
    <3>3. CASE c.text_model_path = ""
      BY <2>0, <3>3, Zenon DEF Completed
    <3> QED BY <3>2, <3>3
  <2>3. y = z
    BY <1>3, <1>6, <2>0, Zenon DEF Completed
  <2>4. /\ l.model_name = Told(m.model_name, n.model_name)
        /\ l.text_model_path = Told(m.text_model_path, n.text_model_path)
        /\ l.vision = Told(n.vision = "", n.vision)
        /\ l.backend = Or(m.backend, n.backend)
        /\ l.port = Over(m.port, n.port)
        /\ l.max_tokens = Over(m.max_tokens, n.max_tokens)
    BY <2>1, ManifestFields, Zenon
  <2>5. /\ z \in Config
        /\ z.model_dir = s.model_dir
        /\ z.model_name = Told(m.model_name, s.model_name)
        /\ z.text_model_path = Told(m.text_model_path, s.text_model_path)
        /\ z.vision = Told(s.vision = "", s.vision)
        /\ z.backend = Or(m.backend, s.backend)
        /\ z.port = Over(m.port, s.port)
        /\ z.max_tokens = Over(m.max_tokens, s.max_tokens)
        /\ z.threads = s.threads /\ z.batch_threads = s.batch_threads
        /\ z.reasoning_budget = s.reasoning_budget
        /\ z.smt_config_dir = s.smt_config_dir
        /\ z.cpu_affinity = s.cpu_affinity
    BY <1>1, ManifestFields, Zenon
  <2>6. m.model_name \in BOOLEAN /\ m.text_model_path \in BOOLEAN
    BY DEF Manifest
  <2> HIDE DEF x, s, y, n, l, z
  <2>7. /\ z.model_name = s.model_name /\ z.text_model_path = s.text_model_path
        /\ z.vision = s.vision /\ z.backend = s.backend
    <3>1. l = x
      BY <2>2
    <3>2. z.model_name = s.model_name
      <4>1. s.model_name = Told(m.model_name, n.model_name)
        BY <1>4, <2>4, <3>1
      <4>2. z.model_name = Told(m.model_name, s.model_name)
        BY <2>5
      <4>3. Told(m.model_name, Told(m.model_name, n.model_name)) = Told(m.model_name, n.model_name)
        BY <2>6, Again, Zenon
      <4> QED BY <4>1, <4>2, <4>3, Zenon
    <3>3. z.text_model_path = s.text_model_path
      <4>1. s.text_model_path = Told(m.text_model_path, n.text_model_path)
        BY <1>4, <2>4, <3>1
      <4>2. z.text_model_path = Told(m.text_model_path, s.text_model_path)
        BY <2>5
      <4>3. Told(m.text_model_path, Told(m.text_model_path, n.text_model_path)) = Told(m.text_model_path, n.text_model_path)
        BY <2>6, Again, Zenon
      <4> QED BY <4>1, <4>2, <4>3, Zenon
    <3>4. z.vision = s.vision
      <4>1. s.vision = Told(n.vision = "", n.vision)
        BY <1>4, <2>4, <3>1
      <4>2. s.vision # ""
        BY <4>1, Again, Zenon
      <4> QED BY <2>5, <4>2, Again, Zenon
    <3>5. z.backend = s.backend
      <4>1. s.backend = Or(m.backend, n.backend)
        BY <1>4, <2>4, <3>1
      <4>2. z.backend = Or(m.backend, s.backend)
        BY <2>5
      <4>3. Or(m.backend, Or(m.backend, n.backend)) = Or(m.backend, n.backend)
        BY Again, Zenon
      <4> QED BY <4>1, <4>2, <4>3, Zenon
    <3> QED BY <3>2, <3>3, <3>4, <3>5
  <2>8. /\ x.port \in Int /\ n.port \in Int /\ x.max_tokens \in Int
        /\ n.max_tokens \in Int
    BY <1>1, <2>1 DEF Config
  <2>9. ValidPort(z.port) = s.port
    <3>1. ASSUME NEW v, NEW w \in Int
          PROVE  ValidPort(Over(v, ValidPort(Over(v, w)))) = ValidPort(Over(v, w))
      <4>1. CASE v # Absent /\ v > 0
        BY <4>1 DEF Over
      <4>2. CASE ~(v # Absent /\ v > 0)
        <5>1. \A u : Over(v, u) = u
          BY <4>2, Zenon DEF Over
        <5>2. ValidPort(ValidPort(w)) = ValidPort(w)
          BY DEF ValidPort
        <5> QED BY <5>1, <5>2, Zenon
      <4> QED BY <4>1, <4>2
    <3>2. s.port = ValidPort(Over(m.port, n.port))
      <4>1. l = x
        BY <2>2
      <4>2. x.port = Over(m.port, n.port)
        BY <2>4, <4>1, Zenon
      <4> QED BY <1>4, <4>2, Zenon
    <3>3. z.port = Over(m.port, ValidPort(Over(m.port, n.port)))
      BY <2>5, <3>2, Zenon
    <3> QED BY <2>8, <3>1, <3>2, <3>3, Zenon
  <2>10. Tokens(z) = s.max_tokens
    <3>1. ASSUME NEW v, NEW w \in Int, NEW d, Above(d), Over(v, w) \in Int
          PROVE  Positive(Over(v, Positive(Over(v, w), d)), d) = Positive(Over(v, w), d)
      <4>1. CASE v # Absent /\ v > 0
        <5>1. \A u : Over(v, u) = v
          BY <4>1, Zenon DEF Over
        <5> QED BY <5>1, Zenon
      <4>2. CASE ~(v # Absent /\ v > 0)
        <5>1. \A u : Over(v, u) = u
          BY <4>2, Zenon DEF Over
        <5>2. Positive(Positive(w, d), d) = Positive(w, d)
          BY <3>1 DEF Positive, Above
        <5> QED BY <5>1, <5>2, Zenon
      <4> QED BY <4>1, <4>2
    <3>2. Above(512)
      BY DEF Above
    <3>3. Tokens(z) = Positive(z.max_tokens, 512) /\ s.max_tokens = Positive(x.max_tokens, 512)
      BY <1>4 DEF Tokens
    <3>4. x.max_tokens = Over(m.max_tokens, n.max_tokens)
      <4>1. l = x
        BY <2>2
      <4> QED BY <2>4, <4>1, Zenon
    <3>5. z.max_tokens = Over(m.max_tokens, s.max_tokens)
      BY <2>5
    <3> DEFINE d == 512
               v == m.max_tokens
               w == n.max_tokens
    <3>6. /\ Above(d) /\ w \in Int /\ Over(v, w) \in Int
          /\ s.max_tokens = Positive(Over(v, w), d)
          /\ Tokens(z) = Positive(Over(v, s.max_tokens), d)
      BY <2>8, <3>2, <3>3, <3>4, <3>5
    <3>7. Positive(Over(v, Positive(Over(v, w), d)), d) = Positive(Over(v, w), d)
      BY <3>1, <3>6
    <3> HIDE DEF d, v, w
    <3> QED BY <3>6, <3>7, Zenon
  <2>11. /\ Sanitize(s).threads = Cores(s) /\ Sanitize(s).batch_threads = Batch(s)
         /\ Sanitize(s).reasoning_budget = Budget(s)
         /\ Sanitize(s).smt_config_dir = ForServer(s, s.smt_config_dir, "dir")
         /\ Sanitize(s).cpu_affinity = ForServer(s, s.cpu_affinity, "0-7")
    BY <1>1, SanitizeFields, Zenon
  <2>12. /\ Cores(z) = Cores(s) /\ Batch(z) = Batch(s) /\ Budget(z) = Budget(s)
         /\ ForServer(z, z.smt_config_dir, "dir") = ForServer(s, s.smt_config_dir, "dir")
         /\ ForServer(z, z.cpu_affinity, "0-7") = ForServer(s, s.cpu_affinity, "0-7")
    <3>1. /\ z.threads = s.threads /\ z.batch_threads = s.batch_threads
          /\ z.reasoning_budget = s.reasoning_budget /\ z.backend = s.backend
          /\ z.smt_config_dir = s.smt_config_dir /\ z.cpu_affinity = s.cpu_affinity
      BY <2>5, <2>7, Zenon
    <3>2. Cores(z) = Cores(s) /\ Batch(z) = Batch(s)
      BY <3>1, Zenon DEF Cores, Batch
    <3>3. Budget(z) = Budget(s)
      BY <3>1, SMT DEF Budget
    <3>4. /\ ForServer(z, z.smt_config_dir, "dir") = ForServer(s, s.smt_config_dir, "dir")
          /\ ForServer(z, z.cpu_affinity, "0-7") = ForServer(s, s.cpu_affinity, "0-7")
      BY <3>1, Zenon DEF ForServer
    <3> QED BY <3>2, <3>3, <3>4, Zenon
  <2>13. /\ Sanitize(z) \in Config
         /\ Sanitize(z).model_dir = z.model_dir
         /\ Sanitize(z).model_name = z.model_name
         /\ Sanitize(z).text_model_path = z.text_model_path
         /\ Sanitize(z).vision = z.vision
         /\ Sanitize(z).backend = z.backend
         /\ Sanitize(z).port = ValidPort(z.port)
         /\ Sanitize(z).max_tokens = Tokens(z)
         /\ Sanitize(z).threads = Cores(z)
         /\ Sanitize(z).batch_threads = Batch(z)
         /\ Sanitize(z).reasoning_budget = Budget(z)
         /\ Sanitize(z).smt_config_dir = ForServer(z, z.smt_config_dir, "dir")
         /\ Sanitize(z).cpu_affinity = ForServer(z, z.cpu_affinity, "0-7")
    BY <2>5, SanitizeFields, Zenon
  <2>14. Sanitize(z) = s
    <3>1. /\ Sanitize(z).model_dir = s.model_dir
          /\ Sanitize(z).model_name = s.model_name
          /\ Sanitize(z).text_model_path = s.text_model_path
          /\ Sanitize(z).vision = s.vision
          /\ Sanitize(z).backend = s.backend
      BY <2>5, <2>7, <2>13
    <3>2. /\ Sanitize(z).port = s.port
          /\ Sanitize(z).max_tokens = s.max_tokens
      BY <2>9, <2>10, <2>13
    <3>3. /\ Sanitize(z).threads = s.threads
          /\ Sanitize(z).batch_threads = s.batch_threads
          /\ Sanitize(z).reasoning_budget = s.reasoning_budget
      BY <1>2, <2>11, <2>12, <2>13
    <3>4. /\ Sanitize(z).smt_config_dir = s.smt_config_dir
          /\ Sanitize(z).cpu_affinity = s.cpu_affinity
      BY <1>2, <2>11, <2>12, <2>13
    <3> QED BY <1>1, <2>13, <3>1, <3>2, <3>3, <3>4, SameFields
  <2> QED BY <2>3, <2>14
<1>7. Sanitize(y) = s
  BY <1>5, <1>6
<1>8. /\ ValidateVlmModelConfig(c, b, m) = s
      /\ ValidateVlmModelConfig(s, b, m) = Sanitize(y)
  BY <1>1, ValidatedIsClean, Zenon
<1> QED BY <1>7, <1>8

(* Reading config.json before validation, which reads it again, gives the  *)
(* same as validation alone, for a configuration without a text model.     *)
LEMMA ManifestFirst ==
    ASSUME NEW c \in Config, NEW b \in BOOLEAN, NEW m \in Manifest,
           c.text_model_path = ""
    PROVE  ValidateVlmModelConfig(LoadVlmManifest(c, b, m), b, m)
               = ValidateVlmModelConfig(c, b, m)
<1> DEFINE n == Named(c)
           x == LoadVlmManifest(n, TRUE, m)
           d == LoadVlmManifest(c, TRUE, m)
           e == Named(d)
           f == LoadVlmManifest(e, TRUE, m)
<1>1. CASE ~b
  BY <1>1, Zenon DEF LoadVlmManifest
<1>2. CASE b
  <2>1. b = TRUE
    BY <1>2
  <2>2. Completed(c, b, m) = x
    BY <2>1, Zenon DEF Completed
  <2>3. /\ n \in Config
        /\ c.model_name # "" => n.model_name = c.model_name
        /\ c.model_name = "" => n.model_name = "dir"
        /\ n.model_dir = c.model_dir
        /\ n.text_model_path = c.text_model_path
        /\ n.vision = c.vision /\ n.backend = c.backend /\ n.port = c.port
        /\ n.max_tokens = c.max_tokens /\ n.threads = c.threads
        /\ n.batch_threads = c.batch_threads
        /\ n.reasoning_budget = c.reasoning_budget
        /\ n.smt_config_dir = c.smt_config_dir
        /\ n.cpu_affinity = c.cpu_affinity
    BY NamedFields, Zenon
  <2>4. /\ x \in Config /\ x.model_dir = n.model_dir
        /\ x.model_name = Told(m.model_name, n.model_name)
        /\ x.text_model_path = Told(m.text_model_path, n.text_model_path)
        /\ x.vision = Told(n.vision = "", n.vision)
        /\ x.backend = Or(m.backend, n.backend)
        /\ x.port = Over(m.port, n.port)
        /\ x.max_tokens = Over(m.max_tokens, n.max_tokens)
        /\ x.threads = n.threads /\ x.batch_threads = n.batch_threads
        /\ x.reasoning_budget = n.reasoning_budget
        /\ x.smt_config_dir = n.smt_config_dir
        /\ x.cpu_affinity = n.cpu_affinity
    BY <2>3, ManifestFields, Zenon
  <2>5. /\ d \in Config /\ d.model_dir = c.model_dir
        /\ d.model_name = Told(m.model_name, c.model_name)
        /\ d.text_model_path = Told(m.text_model_path, c.text_model_path)
        /\ d.vision = Told(c.vision = "", c.vision)
        /\ d.backend = Or(m.backend, c.backend)
        /\ d.port = Over(m.port, c.port)
        /\ d.max_tokens = Over(m.max_tokens, c.max_tokens)
        /\ d.threads = c.threads /\ d.batch_threads = c.batch_threads
        /\ d.reasoning_budget = c.reasoning_budget
        /\ d.smt_config_dir = c.smt_config_dir
        /\ d.cpu_affinity = c.cpu_affinity
    BY ManifestFields, Zenon
  <2>6. /\ e \in Config
        /\ d.model_name # "" => e.model_name = d.model_name
        /\ d.model_name = "" => e.model_name = "dir"
        /\ e.model_dir = d.model_dir
        /\ e.text_model_path = d.text_model_path
        /\ e.vision = d.vision /\ e.backend = d.backend /\ e.port = d.port
        /\ e.max_tokens = d.max_tokens /\ e.threads = d.threads
        /\ e.batch_threads = d.batch_threads
        /\ e.reasoning_budget = d.reasoning_budget
        /\ e.smt_config_dir = d.smt_config_dir
        /\ e.cpu_affinity = d.cpu_affinity
    BY <2>5, NamedFields, Zenon
  <2>7. /\ f \in Config /\ f.model_dir = e.model_dir
        /\ f.model_name = Told(m.model_name, e.model_name)
        /\ f.text_model_path = Told(m.text_model_path, e.text_model_path)
        /\ f.vision = Told(e.vision = "", e.vision)
        /\ f.backend = Or(m.backend, e.backend)
        /\ f.port = Over(m.port, e.port)
        /\ f.max_tokens = Over(m.max_tokens, e.max_tokens)
        /\ f.threads = e.threads /\ f.batch_threads = e.batch_threads
        /\ f.reasoning_budget = e.reasoning_budget
        /\ f.smt_config_dir = e.smt_config_dir
        /\ f.cpu_affinity = e.cpu_affinity
    BY <2>6, ManifestFields, Zenon
  <2>8. m.model_name \in BOOLEAN /\ m.text_model_path \in BOOLEAN
    BY DEF Manifest
  <2>9. Completed(d, b, m) = IF d.text_model_path = "" THEN f ELSE e
    BY <2>1, Zenon DEF Completed
  <2> HIDE DEF n, x, d, e, f
  <2>10. /\ e.model_name = x.model_name
         /\ f.model_name = x.model_name
    <3>1. /\ d.model_name = Told(m.model_name, c.model_name)
          /\ d.model_name # "" => e.model_name = d.model_name
          /\ d.model_name = "" => e.model_name = "dir"
      BY <2>5, <2>6, Zenon
    <3>2. /\ c.model_name # "" => n.model_name = c.model_name
          /\ c.model_name = "" => n.model_name = "dir"
      BY <2>3, Zenon
    <3>3. /\ x.model_name = Told(m.model_name, n.model_name)
          /\ f.model_name = Told(m.model_name, e.model_name)
      BY <2>4, <2>7, Zenon
    <3>4. CASE m.model_name
      <4>1. d.model_name = "manifest" /\ x.model_name = "manifest"
            /\ f.model_name = "manifest"
        BY <3>1, <3>3, <3>4, Zenon DEF Told
      <4> QED BY <3>1, <4>1
    <3>5. CASE ~m.model_name
      <4>1. d.model_name = c.model_name /\ x.model_name = n.model_name
            /\ f.model_name = e.model_name
        BY <3>1, <3>3, <3>5, Zenon DEF Told
      <4> QED BY <3>1, <3>2, <4>1, Zenon
    <3> QED BY <3>4, <3>5, Zenon
  <2>11. /\ e.text_model_path = x.text_model_path
         /\ f.text_model_path = x.text_model_path
    <3>1. /\ e.text_model_path = Told(m.text_model_path, c.text_model_path)
          /\ x.text_model_path = Told(m.text_model_path, c.text_model_path)
      BY <2>3, <2>4, <2>5, <2>6, Zenon
    <3>2. f.text_model_path
              = Told(m.text_model_path, Told(m.text_model_path, c.text_model_path))
      BY <2>7, <3>1, Zenon
    <3>3. Told(m.text_model_path, Told(m.text_model_path, c.text_model_path))
              = Told(m.text_model_path, c.text_model_path)
      BY <2>8, Again, Zenon
    <3> QED BY <3>1, <3>2, <3>3, Zenon
  <2>12. e.vision = x.vision /\ f.vision = x.vision
    <3>1. e.vision = Told(c.vision = "", c.vision) /\ x.vision = Told(c.vision = "", c.vision)
      BY <2>3, <2>4, <2>5, <2>6
    <3>2. e.vision # ""
      BY <3>1, Again, Zenon
    <3>3. f.vision = e.vision
      BY <2>7, <3>2, Again, Zenon
    <3> QED BY <3>1, <3>3
  <2>13. e.backend = x.backend /\ f.backend = x.backend
    <3>1. e.backend = Or(m.backend, c.backend) /\ x.backend = Or(m.backend, c.backend)
      BY <2>3, <2>4, <2>5, <2>6
    <3>2. f.backend = Or(m.backend, Or(m.backend, c.backend))
      BY <2>7, <3>1
    <3>3. Or(m.backend, Or(m.backend, c.backend)) = Or(m.backend, c.backend)
      BY Again, Zenon
    <3> QED BY <3>1, <3>2, <3>3, Zenon
  <2>14. e.port = x.port /\ f.port = x.port
    <3>1. e.port = Over(m.port, c.port) /\ x.port = Over(m.port, c.port)
      BY <2>3, <2>4, <2>5, <2>6
    <3>2. f.port = Over(m.port, Over(m.port, c.port))
      BY <2>7, <3>1
    <3>3. Over(m.port, Over(m.port, c.port)) = Over(m.port, c.port)
      BY Again, Zenon
    <3> QED BY <3>1, <3>2, <3>3, Zenon
  <2>15. e.max_tokens = x.max_tokens /\ f.max_tokens = x.max_tokens
    <3>1. /\ e.max_tokens = Over(m.max_tokens, c.max_tokens)
          /\ x.max_tokens = Over(m.max_tokens, c.max_tokens)
      BY <2>3, <2>4, <2>5, <2>6
    <3>2. f.max_tokens = Over(m.max_tokens, Over(m.max_tokens, c.max_tokens))
      BY <2>7, <3>1
    <3>3. Over(m.max_tokens, Over(m.max_tokens, c.max_tokens))
              = Over(m.max_tokens, c.max_tokens)
      BY Again, Zenon
    <3> QED BY <3>1, <3>2, <3>3, Zenon
  <2>16. /\ e.model_dir = x.model_dir /\ e.threads = x.threads
         /\ e.batch_threads = x.batch_threads
         /\ e.reasoning_budget = x.reasoning_budget
         /\ e.smt_config_dir = x.smt_config_dir /\ e.cpu_affinity = x.cpu_affinity
    <3>1. /\ e.model_dir = c.model_dir /\ e.threads = c.threads
          /\ e.batch_threads = c.batch_threads
          /\ e.reasoning_budget = c.reasoning_budget
          /\ e.smt_config_dir = c.smt_config_dir /\ e.cpu_affinity = c.cpu_affinity
      BY <2>5, <2>6, Zenon
    <3>2. /\ x.model_dir = c.model_dir /\ x.threads = c.threads
          /\ x.batch_threads = c.batch_threads
          /\ x.reasoning_budget = c.reasoning_budget
          /\ x.smt_config_dir = c.smt_config_dir /\ x.cpu_affinity = c.cpu_affinity
      BY <2>3, <2>4, Zenon
    <3> QED BY <3>1, <3>2, Zenon
  <2>17. e = x
    <3>1. e \in Config /\ x \in Config
      BY <2>4, <2>6, Zenon
    <3> QED BY <2>10, <2>11, <2>12, <2>13, <2>14, <2>15, <2>16, <3>1, SameFields, Zenon
  <2>18. CASE d.text_model_path = ""
    <3>1. f = x
      <4>1. f \in Config /\ f.model_dir = e.model_dir
            /\ f.threads = e.threads /\ f.batch_threads = e.batch_threads
            /\ f.reasoning_budget = e.reasoning_budget
            /\ f.smt_config_dir = e.smt_config_dir /\ f.cpu_affinity = e.cpu_affinity
        BY <2>7
      <4>2. f.text_model_path = x.text_model_path
        BY <2>6, <2>11, <2>18
      <4>3. f = e
        BY <2>6, <2>10, <2>12, <2>13, <2>14, <2>15, <2>17, <4>1, <4>2, SameFields
      <4> QED BY <2>17, <4>3
    <3>2. Completed(d, b, m) = Completed(c, b, m)
      BY <2>2, <2>9, <2>18, <3>1, Zenon
    <3>3. d \in Config /\ LoadVlmManifest(c, b, m) = d
      BY <2>1, <2>5 DEF d
    <3>4. /\ ValidateVlmModelConfig(d, b, m) = Sanitize(Completed(d, b, m))
          /\ ValidateVlmModelConfig(c, b, m) = Sanitize(Completed(c, b, m))
      BY <3>3, ValidatedIsClean, Zenon
    <3> QED BY <3>2, <3>3, <3>4, Zenon
  <2>19. CASE d.text_model_path # ""
    <3>2. Completed(d, b, m) = Completed(c, b, m)
      BY <2>2, <2>9, <2>17, <2>19, Zenon
    <3>3. d \in Config /\ LoadVlmManifest(c, b, m) = d
      BY <2>1, <2>5 DEF d
    <3>4. /\ ValidateVlmModelConfig(d, b, m) = Sanitize(Completed(d, b, m))
          /\ ValidateVlmModelConfig(c, b, m) = Sanitize(Completed(c, b, m))
      BY <3>3, ValidatedIsClean, Zenon
    <3> QED BY <3>2, <3>3, <3>4, Zenon
  <2> QED BY <2>18, <2>19, Zenon
<1> QED BY <1>1, <1>2

-----------------------------------------------------------------------------
(* The configuration that LoadVlmConfigFromYaml makes of what it reads.    *)
Made(dir, text, port, back, tokens, cores, batch, budget) ==
    [model_dir |-> dir, model_name |-> "", text_model_path |-> text, vision |-> "",
     port |-> port, backend |-> back, smt_config_dir |-> "", cpu_affinity |-> "",
     max_tokens |-> tokens, threads |-> cores, batch_threads |-> batch,
     reasoning_budget |-> budget]

(* What a YAML file without a map for its backend gives.                   *)
LEMMA FromYamlIsConfig ==
    ASSUME NEW y \in Yaml, y.backend # "map"
    PROVE  /\ LoadVlmConfigFromYaml(y) \in Config
           /\ LoadVlmConfigFromYaml(y).text_model_path = "" <=> ~y.text_model_path
<1> DEFINE dir  == y.model_dir
           text == IF y.text_model_path THEN "yaml" ELSE ""
           standard == 8086
           port == Or(y.port, standard)
           back == Or(y.backend, "direct")
           cores == Or(y.threads, 8)
           batch == Or(y.batch_threads, 8)
           budget == Or(y.reasoning_budget, -1)
           tokens == 150
<1>1. text \in Strings /\ "" \in Strings /\ (text = "" <=> ~y.text_model_path)
  BY DEF Strings
<1>2. back \in Backends
  BY DEF Yaml, Or, Backends
<1>3. ASSUME NEW v, v \in Int \/ v = Absent, NEW w \in Int
      PROVE  Or(v, w) \in Int
  BY <1>3 DEF Or
<1>4. port \in Int /\ cores \in Int /\ batch \in Int /\ budget \in Int /\ tokens \in Int
  <2>1. y.port \in Int \/ y.port = Absent
    BY NumberAssumption DEF Yaml
  <2>2. /\ y.threads \in Int \/ y.threads = Absent
        /\ y.batch_threads \in Int \/ y.batch_threads = Absent
        /\ y.reasoning_budget \in Int \/ y.reasoning_budget = Absent
    BY NumberAssumption DEF Yaml
  <2>3. standard \in Int
    OBVIOUS
  <2>4. 8 \in Int
    OBVIOUS
  <2>5. -1 \in Int
    OBVIOUS
  <2>6. port \in Int
    <3> HIDE DEF standard
    <3> QED BY <1>3, <2>1, <2>3, Zenon
  <2>7. cores \in Int /\ batch \in Int
    BY <1>3, <2>2, <2>4
  <2>8. budget \in Int
    BY <1>3, <2>2, <2>5
  <2>9. tokens \in Int
    OBVIOUS
  <2> QED BY <2>6, <2>7, <2>8, <2>9
<1>5. dir \in BOOLEAN
  BY DEF Yaml
<1>6. LoadVlmConfigFromYaml(y)
          = Made(dir, text, port, back, tokens, cores, batch, budget)
  BY DEF LoadVlmConfigFromYaml, Made
<1> HIDE DEF dir, standard, text, port, back, cores, batch, budget, tokens
<1>7. text \in Strings
  BY <1>1, Zenon
<1>8. /\ Made(dir, text, port, back, tokens, cores, batch, budget) \in Config
      /\ Made(dir, text, port, back, tokens, cores, batch, budget).text_model_path
             = text
  <2>1. "" \in Strings
    BY DEF Strings
  <2> QED BY <1>2, <1>4, <1>5, <1>7, <2>1 DEF Config, Made
<1> QED BY <1>1, <1>6, <1>8, Zenon

(* The configuration of a program that has set nothing has no name.        *)
LEMMA UnsetIsConfig == Unset \in Config /\ Unset.model_name = ""
<1>1. Unset \in Config
  BY DEF Unset, LoadVlmConfigFromYaml, Or, Config, Strings, Backends
<1>2. Unset.model_name = ""
  BY DEF Unset, LoadVlmConfigFromYaml
<1> QED BY <1>1, <1>2

(* The invariant holds before the YAML file is read.                       *)
LEMMA InvInit == Init => IInv
<1> SUFFICES ASSUME Init
             PROVE  IInv
  OBVIOUS
<1>1. Typed
  BY UnsetIsConfig DEF Init, Typed
<1>2. Settled
  BY DEF Init, Settled, Ready
<1>3. Merged
  BY DEF Init, Merged, Ready, Underway
<1>4. Unnamed
  BY DEF Init, Unnamed, Ready, Underway
<1> QED BY <1>1, <1>2, <1>3, <1>4 DEF IInv

(* A configuration that was validated once is not Unset.                   *)
LEMMA CleanIsSet == ASSUME NEW c \in Config, Clean(c) PROVE c # Unset
BY UnsetIsConfig DEF Clean

(* Every step of the pipeline keeps the first three parts.                 *)
LEMMA PipelineStep == IInv /\ [Next]_vars => Typed' /\ Settled' /\ Merged'
<1> SUFFICES ASSUME IInv, [Next]_vars
             PROVE  Typed' /\ Settled' /\ Merged'
  OBVIOUS
<1> USE DEF IInv, Ready, Underway
<1>1. CASE ReadYaml
  <2>1. CASE pc' \in {"failed", "threw"} /\ UNCHANGED config
    BY <1>1, <2>1 DEF ReadYaml, Typed, Settled, Merged
  <2>2. CASE yaml.backend # "map" /\ pc' = "manifest" /\ config' = FromYaml
    <3>1. /\ pc = "yaml" /\ pc' = "manifest" /\ config' = FromYaml
          /\ UNCHANGED <<yaml, manifest, installed, changed, checked, service>>
      BY <1>1, <2>2 DEF ReadYaml
    <3>2. FromYaml \in Config /\ FromYaml' = FromYaml
      BY <2>2, <3>1, FromYamlIsConfig DEF Typed, FromYaml
    <3> QED BY <2>2, <3>1, <3>2 DEF Typed, Settled, Merged, Settles
  <2> QED BY <1>1, <2>1, <2>2 DEF ReadYaml, FromYaml
<1>2. CASE BuildByHand
  <2>1. /\ pc = "yaml" /\ pc' = "create" /\ config' = FromYaml
        /\ yaml.backend # "map"
        /\ UNCHANGED <<yaml, manifest, installed, changed, checked, service>>
    BY <1>2 DEF BuildByHand, FromYaml
  <2>2. FromYaml \in Config /\ FromYaml' = FromYaml
    BY <2>1, FromYamlIsConfig DEF Typed, FromYaml
  <2> QED BY <2>1, <2>2 DEF Typed, Settled, Merged, Settles
<1>3. CASE ReadManifest
  <2> DEFINE b == installed /\ config.model_dir
  <2>1. /\ pc = "manifest" /\ pc' = "validate"
        /\ config' = LoadVlmManifest(config, b, manifest)
        /\ UNCHANGED <<yaml, manifest, installed, changed, checked, service>>
    BY <1>3 DEF ReadManifest
  <2>2. /\ config \in Config /\ manifest \in Manifest /\ installed \in BOOLEAN
        /\ config.model_dir \in BOOLEAN /\ b \in BOOLEAN
    BY DEF Typed, Config
  <2>3. config' \in Config
    BY <2>1, <2>2, LoadedIsConfig, Zenon
  <2>4. ASSUME ~yaml.text_model_path
        PROVE  Settles(config') = Settles(FromYaml)
    <3>1. config = FromYaml /\ config.text_model_path = ""
      BY <2>1, <2>4, FromYamlIsConfig DEF Merged, Typed, FromYaml
    <3>2. CASE config' = config
      BY <3>1, <3>2
    <3>3. CASE b = installed
      <4>1. config' = LoadVlmManifest(config, installed, manifest)
        BY <2>1, <3>3
      <4>2. ValidateVlmModelConfig(config', installed, manifest)
                = ValidateVlmModelConfig(config, installed, manifest)
        BY <2>2, <3>1, <4>1, ManifestFirst, Zenon
      <4> QED BY <3>1, <4>2 DEF Settles
    <3>4. config' = config \/ b = installed
      <4>1. CASE ~b
        BY <2>1, <4>1 DEF LoadVlmManifest
      <4>2. CASE b
        BY <2>2, <4>2
      <4> QED BY <4>1, <4>2
    <3> QED BY <3>2, <3>3, <3>4
  <2>5. FromYaml' = FromYaml /\ Settles(config)' = Settles(config')
        /\ Settles(FromYaml)' = Settles(FromYaml)
    BY <2>1 DEF FromYaml, Settles
  <2> HIDE DEF b
  <2> QED BY <2>1, <2>3, <2>4, <2>5 DEF Typed, Settled, Merged
<1>4. CASE Validate
  <2>1. CASE config.model_dir
    <3>1. /\ pc = "validate" /\ pc' = "create"
          /\ config' = Settles(config) /\ checked' = config'
          /\ UNCHANGED <<yaml, manifest, installed, changed, service>>
      BY <1>4, <2>1 DEF Validate, Settles
    <3>2. /\ config \in Config /\ manifest \in Manifest /\ installed \in BOOLEAN
      BY DEF Typed
    <3>3. config' \in Config
      BY <3>1, <3>2, ValidatedIsClean, Zenon DEF Settles
    <3>4. Settles(config') = config'
      BY <3>1, <3>2, ValidationSettles, Zenon DEF Settles
    <3>5. FromYaml' = FromYaml /\ Settles(config)' = Settles(config')
          /\ Settles(FromYaml)' = Settles(FromYaml)
      BY <3>1 DEF FromYaml, Settles
    <3> QED BY <3>1, <3>3, <3>4, <3>5 DEF Typed, Settled, Merged
  <2>2. CASE ~config.model_dir
    BY <1>4, <2>2 DEF Validate, Typed, Settled, Merged
  <2> QED BY <2>1, <2>2
<1>5. CASE CreateVlmService
  <2>1. CASE config.model_dir
    <3>1. /\ pc = "create" /\ pc' = "initialize" /\ config' = Settles(config)
          /\ UNCHANGED <<yaml, manifest, installed, changed, checked, service>>
      BY <1>5, <2>1 DEF CreateVlmService, Settles
    <3>2. /\ config \in Config /\ manifest \in Manifest /\ installed \in BOOLEAN
      BY DEF Typed
    <3>3. config' \in Config /\ Clean(config')
      BY <3>1, <3>2, ValidatedIsClean, Zenon DEF Settles
    <3>4. FromYaml' = FromYaml /\ Settles(FromYaml)' = Settles(FromYaml)
      BY <3>1 DEF FromYaml, Settles
    <3>5. Typed'
      BY <3>1, <3>3 DEF Typed
    <3>6. Settled'
      <4>1. Clean(config)'
        BY <3>3, Zenon DEF Clean, InRange, Above
      <4> QED BY <3>1, <4>1 DEF Settled, Typed
    <3>7. Merged'
      BY <3>1, <3>4 DEF Merged
    <3> QED BY <3>5, <3>6, <3>7
  <2>2. CASE ~config.model_dir
    BY <1>5, <2>2 DEF CreateVlmService, Typed, Settled, Merged
  <2> QED BY <2>1, <2>2
<1>6. CASE Initialize
  <2>1. /\ pc = "initialize"
        /\ UNCHANGED <<yaml, manifest, installed, changed, config, checked>>
        /\ \/ /\ config.backend = "server" \/ config.text_model_path # ""
              /\ service' = config.backend /\ pc' = "created"
           \/ pc' = "failed" /\ UNCHANGED service
    BY <1>6 DEF Initialize
  <2>2. config.backend \in Backends
    BY DEF Typed, Config
  <2>3. FromYaml' = FromYaml /\ Settles(FromYaml)' = Settles(FromYaml)
        /\ Settles(config)' = Settles(config)
    BY <2>1 DEF FromYaml, Settles
  <2>4. Typed'
    BY <2>1, <2>2 DEF Typed
  <2>5. Settled'
    <3>1. Clean(config) => Clean(config)'
      BY <2>1, Zenon DEF Clean, InRange, Above
    <3> QED BY <2>1, <2>2, <2>3, <3>1 DEF Settled, Backends
  <2>6. Merged'
    BY <2>1, <2>3 DEF Merged
  <2> QED BY <2>4, <2>5, <2>6
<1>7. CASE Installed
  <2>1. /\ changed' = TRUE /\ installed' = TRUE
        /\ UNCHANGED <<yaml, manifest, pc, config, checked, service>>
    BY <1>7 DEF Installed
  <2>2. FromYaml' = FromYaml
    BY <2>1 DEF FromYaml
  <2>3. Clean(config) => Clean(config)'
    BY <2>1, Zenon DEF Clean, InRange, Above
  <2> QED BY <2>1, <2>2, <2>3 DEF Typed, Settled, Merged
<1>8. CASE UNCHANGED vars
  <2>1. UNCHANGED <<yaml, manifest, installed, changed, pc, config, checked, service>>
    BY <1>8 DEF vars
  <2>2. Clean(config) => Clean(config)'
    BY <2>1, Zenon DEF Clean, InRange, Above
  <2> QED BY <2>1, <2>2 DEF Typed, Settled, Merged, Settles, FromYaml
<1> QED BY <1>1, <1>2, <1>3, <1>4, <1>5, <1>6, <1>7, <1>8 DEF Next

(* Every step keeps the last part: a text model named by a file that could *)
(* be read is in the configuration.                                        *)
LEMMA UnnamedStep == IInv /\ [Next]_vars => Unnamed'
<1> SUFFICES ASSUME IInv, [Next]_vars, config'.text_model_path = ""
             PROVE  /\ pc' \in Underway \cup Ready => ~yaml'.text_model_path
                    /\ pc' \in Ready => (manifest'.text_model_path /\ installed'
                                             => changed')
  BY DEF Unnamed, Underway, Ready
<1>0. /\ config \in Config /\ manifest \in Manifest /\ installed \in BOOLEAN
      /\ yaml \in Yaml /\ config.model_dir \in BOOLEAN
  BY DEF IInv, Typed, Config
<1>1. CASE ReadYaml \/ BuildByHand
  <2>1. CASE pc' \in {"failed", "threw"}
    BY <2>1 DEF Underway, Ready
  <2>2. CASE pc' \notin {"failed", "threw"}
    <3>1. /\ yaml.backend # "map" /\ config' = LoadVlmConfigFromYaml(yaml)
          /\ pc' \notin Ready /\ yaml' = yaml
      BY <1>1, <2>2 DEF ReadYaml, BuildByHand, Ready
    <3>2. ~yaml.text_model_path
      BY <1>0, <3>1, FromYamlIsConfig, Zenon
    <3> QED BY <3>1, <3>2
  <2> QED BY <2>1, <2>2
<1>2. CASE ReadManifest
  <2> DEFINE b == installed /\ config.model_dir
  <2>1. /\ pc \in Underway /\ pc' \notin Ready /\ yaml' = yaml
        /\ config' = LoadVlmManifest(config, b, manifest)
    BY <1>2 DEF ReadManifest, Underway, Ready
  <2>2. b \in BOOLEAN
    BY <1>0
  <2> HIDE DEF b
  <2>3. config.text_model_path = ""
    BY <1>0, <2>1, <2>2, LoadedText, Zenon
  <2> QED BY <2>1, <2>3 DEF IInv, Unnamed
<1>3. CASE Validate \/ CreateVlmService
  <2>1. CASE pc' = "failed"
    BY <2>1 DEF Underway, Ready
  <2>2. CASE pc' # "failed"
    <3>1. /\ config' = ValidateVlmModelConfig(config, installed, manifest)
          /\ pc \in Underway
          /\ UNCHANGED <<yaml, manifest, installed, changed>>
      BY <1>3, <2>2 DEF Validate, CreateVlmService, Underway
    <3>2. config.text_model_path = "" /\ ~(installed /\ manifest.text_model_path)
      BY <1>0, <3>1, ValidatedText, Zenon
    <3> QED BY <3>1, <3>2 DEF IInv, Unnamed
  <2> QED BY <2>1, <2>2
<1>4. CASE Initialize
  <2>1. /\ pc \in Ready /\ UNCHANGED <<yaml, manifest, installed, changed, config>>
    BY <1>4 DEF Initialize, Ready
  <2> QED BY <2>1 DEF IInv, Unnamed
<1>5. CASE Installed
  <2>1. /\ changed' = TRUE /\ UNCHANGED <<yaml, manifest, pc, config>>
    BY <1>5 DEF Installed
  <2> QED BY <2>1 DEF IInv, Unnamed
<1>6. CASE UNCHANGED vars
  <2>1. UNCHANGED <<yaml, manifest, installed, changed, pc, config>>
    BY <1>6 DEF vars
  <2> QED BY <2>1 DEF IInv, Unnamed
<1> QED BY <1>1, <1>2, <1>3, <1>4, <1>5, <1>6 DEF Next

(* Every step of the pipeline keeps the invariant.                         *)
LEMMA InvStep == IInv /\ [Next]_vars => IInv'
BY PipelineStep, UnnamedStep DEF IInv

(* The inductive invariant.                                                *)
THEOREM Invariance == Spec => []IInv
BY InvInit, InvStep, PTL DEF Spec

(* Whatever the two files hold and whenever config.json appears, every     *)
(* service has its numbers in range and its strings set; text_model_path   *)
(* alone may be empty, for a server service no readable file names one for *)
(* (ValidateVlmModelConfig in both factory functions).                     *)
THEOREM ServicesAreSound == Spec => []ServiceIsSound
<1>1. IInv => ServiceIsSound
  <2> SUFFICES ASSUME IInv, service # "none"
               PROVE  /\ config.port \in PortNumbers
                      /\ \A n \in {config.max_tokens, config.threads,
                                   config.batch_threads, config.reasoning_budget} : n > 0
                      /\ config.model_name # ""
                      /\ service = "server" => /\ config.smt_config_dir # ""
                                               /\ config.cpu_affinity # ""
                      /\ config.text_model_path = "" =>
                             /\ service = "server" /\ ~yaml.text_model_path
                             /\ manifest.text_model_path /\ installed => changed
    BY DEF ServiceIsSound
  <2>1. /\ Clean(config) /\ service = config.backend /\ pc \in Ready
        /\ service = "direct" => config.text_model_path # ""
    BY DEF IInv, Settled, Ready
  <2>2. config.port \in PortNumbers
    BY <2>1, Zenon DEF Clean, InRange
  <2>3. /\ config.max_tokens > 0 /\ config.threads > 0
        /\ config.batch_threads > 0 /\ config.reasoning_budget > 0
    BY <2>1 DEF Clean, Above
  <2>4. /\ config.model_name # ""
        /\ service = "server" => /\ config.smt_config_dir # ""
                                 /\ config.cpu_affinity # ""
    BY <2>1 DEF Clean
  <2>5. config.text_model_path = "" =>
            /\ service = "server" /\ ~yaml.text_model_path
            /\ manifest.text_model_path /\ installed => changed
    <3>1. service \in Backends
      BY <2>1 DEF IInv, Typed, Config
    <3>2. config.text_model_path = "" => service = "server"
      BY <2>1, <3>1 DEF Backends
    <3> QED BY <2>1, <3>2 DEF IInv, Unnamed
  <2> QED BY <2>2, <2>3, <2>4, <2>5
<1> QED BY Invariance, <1>1, PTL

(* The second validation changes nothing, unless config.json appeared.     *)
THEOREM RevalidationChangesNothing == Spec => []RevalidationIsStable
<1>1. IInv => RevalidationIsStable
  BY DEF IInv, Settled, RevalidationIsStable, Ready
<1> QED BY Invariance, <1>1, PTL

(* The two routes to a service give the same configuration.                *)
THEOREM RoutesAgree == Spec => []SameServiceBothWays
<1>1. IInv => SameServiceBothWays
  BY DEF IInv, Merged, SameServiceBothWays, Ready, Settles, FromYaml
<1> QED BY Invariance, <1>1, PTL
=============================================================================
