----------------------------- MODULE MCAiSettings -----------------------------
(* Two complete targets and an endpoint without a model, two keys; every    *)
(* mixture of a key and clearApiKey, and one body that does not parse.      *)
EXTENDS AiSettings

MCTargets == {"m1@u", "m2@u", "u"}
MCComplete == {"m1@u", "m2@u"}
MCKeys == {"k1", "k2"}
MCPlatforms == {"linux", "macos", "windows"}

Body(target, enabled, key, clear) ==
  [valid |-> TRUE, target |-> target, enabled |-> enabled, key |-> key, clear |-> clear]
MCBodies ==
  {Body("m1@u", TRUE, k, c) : k \in {"k1", "k2", "none"}, c \in {"no", "yes"}}
  \union {Body("m2@u", TRUE, k, "no") : k \in {"k1", "none"}}
  \union {Body("u", FALSE, "k1", "no"), Body("u", TRUE, "none", "no"),
          Body("none", FALSE, "k1", "no"), Body("none", FALSE, "none", "yes"),
          Body("m1@u", TRUE, "bad", "no"), Body("m2@u", FALSE, "k2", "bad"),
          [Body("m1@u", TRUE, "k1", "no") EXCEPT !.valid = FALSE]}

\* Files of earlier versions, whose reference is the bare name of the store.
MCHandwritten == {[file |-> TRUE, target |-> "m1@u", enabled |-> TRUE, ref |-> "none"],
                  [file |-> TRUE, target |-> "u", enabled |-> FALSE, ref |-> "empty"]}
=============================================================================
