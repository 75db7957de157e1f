------------------------------- MODULE Config -------------------------------
(***************************************************************************)
(* config.rs, and what daemon.rs makes of a configuration: the merge of    *)
(* .lfsdalconfig, .git/config and the environment, and the transports for  *)
(* uploads, for reading, and for locks.                                    *)
(*                                                                         *)
(* A file is the sequence of its key = value lines; headers of sections    *)
(* and comments are skipped, so a key counts in any section.  The keys of  *)
(* daemon-port and the two max-concurrent limits fill fields that nothing  *)
(* reads and are left out.                                                 *)
(***************************************************************************)
EXTENDS Integers, SequencesExt

CONSTANTS
  Numbers,     \* the values that parse as a usize
  Endpoints,   \* the values that parse as an iroh endpoint id
  SecretKeys,  \* the values that look like a key: nsec1..., or hex of 32 bytes
  Signers,     \* those of them that a signer takes
  IrohBuilt,   \* the feature iroh is compiled in
  None,        \* no value
  Refused,     \* no configuration, no transport
  Absent, Unreadable   \* contents of a file

ASSUME ConfigAssumption ==
  /\ Signers \subseteq SecretKeys
  /\ IrohBuilt \in BOOLEAN
  /\ None \notin Numbers \cup Endpoints \cup SecretKeys
  /\ Refused \notin SecretKeys

DEFAULT_CHUNK_SIZE == "16777216"

FieldNames == {"server", "iroh-endpoint", "private-key", "transport", "chunk-size"}

EnvNames == FieldNames \ {"chunk-size"}

NoFields == [k \in FieldNames |-> None]

\* A string field takes any value; a number or a transport only one it understands.
Usable(key, value) ==
  /\ key = "chunk-size" => value \in Numbers
  /\ key = "transport"  => value \in {"http", "iroh"}

\* Mutant: the last value wins.
merge_line_over(fields, line) ==
  IF Usable(line.key, line.value) THEN [fields EXCEPT ![line.key] = line.value] ELSE fields

merge_line(fields, line) ==
  IF fields[line.key] = None /\ Usable(line.key, line.value)
    THEN [fields EXCEPT ![line.key] = line.value]
    ELSE fields

merge_from_content(fields, content) ==
  IF content = Absent THEN fields ELSE FoldLeft(merge_line, fields, content)

\* env gives a value, or None, to each of EnvNames.
merge_from_env(fields, env) ==
  [k \in FieldNames |->
     IF k \in EnvNames /\ fields[k] = None /\ Usable(k, env[k]) THEN env[k] ELSE fields[k]]

is_iroh_only(fields) == fields["transport"] = "iroh" /\ fields["iroh-endpoint"] # None

\* nsec1... is decoded, anything else has to be hex of 32 bytes.
normalize_to_hex(key) == IF key \in SecretKeys THEN key ELSE Refused

into_config(fields) ==
  IF \/ fields["server"] = None /\ ~is_iroh_only(fields)
     \/ fields["private-key"] # None /\ normalize_to_hex(fields["private-key"]) = Refused
    THEN Refused
    ELSE [fields EXCEPT !["chunk-size"] = IF @ = None THEN DEFAULT_CHUNK_SIZE ELSE @]

\* What from_repo_path returns when both files stay as they are.
from_repo_path(dal, git, env) ==
  IF Unreadable \in {dal, git}
    THEN Refused
    ELSE into_config(merge_from_env(merge_from_content(merge_from_content(NoFields, dal), git), env))

(***************************************************************************)
(* Transports: the addresses that a call may use.  A configuration without *)
(* server has the placeholder http://localhost:0, where nobody answers.    *)
(***************************************************************************)
http_only(config) == {config["server"]} \ {None}

multi(config) == http_only(config) \cup {config["iroh-endpoint"]}

\* force_http and, when it is compiled in, force_iroh.
force(config, transport) ==
  CASE config["transport"] = "http"               -> transport \cap http_only(config)
    [] config["transport"] = "iroh" /\ IrohBuilt  -> transport \ http_only(config)
    [] OTHER                                      -> transport

make_transport(config) ==
  LET overIroh == IrohBuilt /\ config["iroh-endpoint"] # None
  IN  IF \/ config["private-key"] \notin Signers
         \/ overIroh /\ config["iroh-endpoint"] \notin Endpoints
        THEN Refused
        ELSE force(config, IF overIroh THEN multi(config) ELSE http_only(config))

\* Mutant: without a key the endpoint is asked.
load_read_by_endpoint(config) ==
  IF config["private-key"] = None THEN {config["iroh-endpoint"]} \ {None} ELSE make_transport(config)

load_read_transport(config) ==
  IF config["private-key"] = None THEN http_only(config) ELSE make_transport(config)

\* Mutant: locks go over iroh whenever there is an endpoint.
make_lock_by_endpoint(config) ==
  IF config["private-key"] = None THEN Refused
    ELSE IF config["iroh-endpoint"] = None THEN http_only(config) ELSE {config["iroh-endpoint"]}

make_lock_transport(config) ==
  IF is_iroh_only(config)
    THEN IF /\ IrohBuilt
            /\ config["private-key"] \in Signers
            /\ config["iroh-endpoint"] \in Endpoints
           THEN {config["iroh-endpoint"]} ELSE Refused
    ELSE IF config["private-key"] = None THEN Refused ELSE http_only(config)

=============================================================================
