--------------------------- MODULE ChainSelection ----------------------------
(***************************************************************************)
(* Which chain each script works on.  use-chain.sh copies a template over    *)
(* .env; full-setup.sh resolves the chain, exports it and runs the phases;    *)
(* every script, run by full-setup.sh or alone, sources .env again and fills  *)
(* in defaults of its own.  There is one config/extension.env for all chains. *)
(* A URL, an addresses file or a Compose overlay is modelled by the chain it  *)
(* belongs to.                                                              *)
(***************************************************************************)
EXTENDS Naturals

CONSTANTS
  Names,      \* "local", "coston", "coston2"
  Templates   \* what use-chain.sh may copy over .env

Unset == "unset"
Variables == {"CHAIN", "CHAIN_URL", "ADDRESSES_FILE", "NORMAL_PROXY_URL", "LOCAL_MODE"}
Settings ==
  {e \in [Variables -> Names \cup {"true", "false", Unset}] :
     \A v \in Variables :
       IF v = "LOCAL_MODE" THEN e[v] \notin Names ELSE e[v] \notin {"true", "false"}}
Nothing == [v \in Variables |-> Unset]

ASSUME ChainAssumption ==
  /\ {"local", "coston", "coston2"} \subseteq Names
  /\ Names \cap {"true", "false", Unset} = {}
  /\ Templates \subseteq Settings

VARIABLES
  env,       \* .env; Nothing when there is none
  ext,       \* the chain the extension of extension.env is on, or Unset
  at,        \* the script that runs, or "idle"
  full,      \* it was started by full-setup.sh
  flag,      \* full-setup.sh --chain
  shell,     \* the environment the scripts inherit
  log,       \* the chains each script of this run has worked on
  switched   \* .env has been replaced since extension.env was written

runVars == <<at, full, flag, shell>>
vars == <<env, ext, runVars, log, switched>>

Scripts == {"pre-build", "start-services", "post-build", "test"}
NoLog == [s \in Scripts |-> {}]

Init ==
  /\ env = Nothing /\ ext = Unset
  /\ at = "idle" /\ full = FALSE /\ flag = Unset /\ shell = Nothing
  /\ log = NoLog /\ switched = FALSE

Default(value, other) == IF value = Unset THEN other ELSE value

\* set -a; source .env: what the file sets replaces what was inherited.
Sourced(sh) == [v \in Variables |-> Default(env[v], sh[v])]

Chain(sh) ==
  Default(sh["CHAIN"],
          IF Default(sh["LOCAL_MODE"], "true") = "true" THEN "local" ELSE "coston2")

\* Mutant: the flag is applied after .env.
ResolvedFlagLast(f) == [Sourced(Nothing) EXCEPT !["CHAIN"] = Default(f, @)]

\* full-setup.sh keeps the flag in CHAIN and then sources .env.
Resolved(f) == Sourced([Nothing EXCEPT !["CHAIN"] = f])

\* Mutant: the normal proxy is left to the scripts.
ExportedWithoutProxy(f) ==
  LET c == Chain(Resolved(f)) IN
  [Resolved(f) EXCEPT !["CHAIN"] = c,
                      !["LOCAL_MODE"] = IF c = "local" THEN "true" ELSE "false",
                      !["CHAIN_URL"] = IF c = "local" THEN @ ELSE Default(@, c),
                      !["ADDRESSES_FILE"] = IF c = "local" THEN @ ELSE Default(@, c)]

Exported(f) ==
  LET c == Chain(Resolved(f)) IN
  [Resolved(f) EXCEPT !["CHAIN"] = c,
                      !["LOCAL_MODE"] = IF c = "local" THEN "true" ELSE "false",
                      !["CHAIN_URL"] = IF c = "local" THEN @ ELSE Default(@, c),
                      !["ADDRESSES_FILE"] = IF c = "local" THEN @ ELSE Default(@, c),
                      !["NORMAL_PROXY_URL"] = IF c = "local" THEN @ ELSE Default(@, c)]

\* What a script works with once it has sourced .env; full-setup.sh passes
\* start-services.sh its chain as --chain, which goes before .env.
Here == Sourced(shell)

URL == Default(Here["CHAIN_URL"], "local")
Addresses == Default(Here["ADDRESSES_FILE"], Chain(Here))
NormalProxy == Default(Here["NORMAL_PROXY_URL"], "local")
Overlay == IF full THEN shell["CHAIN"] ELSE Chain(Here)
NodeURL == IF Overlay = "local" THEN "local" ELSE Default(Here["CHAIN_URL"], Overlay)

-----------------------------------------------------------------------------
\* use-chain.sh; an unknown language is refused only after the copy.
UseChain(t) ==
  /\ at = "idle"
  /\ env' = t
  /\ log' = NoLog /\ switched' = TRUE
  /\ full' = FALSE /\ flag' = Unset /\ shell' = Nothing
  /\ UNCHANGED <<ext, at>>

FullSetup(f) ==
  /\ at = "idle" /\ at' = "pre-build"
  /\ full' = TRUE /\ flag' = f
  /\ shell' = Exported(f)
  /\ log' = NoLog
  /\ UNCHANGED <<env, ext, switched>>

RunAlone(s) ==
  /\ at = "idle" /\ at' = s
  /\ full' = FALSE /\ flag' = Unset /\ shell' = Nothing
  /\ log' = NoLog
  /\ UNCHANGED <<env, ext, switched>>

\* The phase of full-setup.sh after script s; the test is optional.
Proceed(s, next) ==
  /\ at = s
  /\ at' \in IF full THEN {next} ELSE {"idle"}
  /\ UNCHANGED <<env, full, flag, shell>>

Logs(s, chains) == log' = [log EXCEPT ![s] = chains]

\* No extension.env, or --force.  The preflight check finds no contracts when
\* the addresses are not those of the node's chain.
PreBuild ==
  /\ Proceed("pre-build", "start-services")
  /\ Addresses = URL
  /\ ext' = URL /\ switched' = FALSE
  /\ Logs("pre-build", {URL, Addresses})

\* An extension.env that is there is taken, whatever chain it is for.
Reuse ==
  /\ ext # Unset
  /\ Proceed("pre-build", "start-services")
  /\ UNCHANGED <<ext, log, switched>>

StartServices ==
  /\ ext # Unset
  /\ Proceed("start-services", "post-build")
  /\ Logs("start-services", {Overlay, NodeURL})
  /\ UNCHANGED <<ext, switched>>

PostBuild ==
  /\ Addresses = URL
  /\ Proceed("post-build", "test")
  /\ Logs("post-build", {URL, Addresses, NormalProxy})
  /\ UNCHANGED <<ext, switched>>

Test ==
  /\ ext # Unset
  /\ Proceed("test", "idle")
  /\ Logs("test", {URL, Addresses})
  /\ UNCHANGED <<ext, switched>>

\* A script fails, or full-setup.sh ends without --test.
Stops ==
  /\ at # "idle" /\ at' = "idle"
  /\ UNCHANGED <<env, ext, full, flag, shell, log, switched>>

Next ==
  \/ \E t \in Templates : UseChain(t)
  \/ \E f \in Names \cup {Unset} : FullSetup(f)
  \/ \E s \in Scripts : RunAlone(s)
  \/ PreBuild \/ Reuse \/ StartServices \/ PostBuild \/ Test \/ Stops

Spec == Init /\ [][Next]_vars

-----------------------------------------------------------------------------
ModeOf(c) == IF c = "local" THEN "true" ELSE "false"

\* .env says nothing against chain c, and all that it can say for it.
Compatible(c) == \A v \in Variables : env[v] \in {c, ModeOf(c), Unset}
Complete(c) == \A v \in Variables \ {"LOCAL_MODE"} : env[v] = c

TypeOK ==
  /\ env \in Settings /\ shell \in Settings
  /\ ext \in Names \cup {Unset} /\ flag \in Names \cup {Unset}
  /\ at \in Scripts \cup {"idle"}
  /\ full \in BOOLEAN /\ switched \in BOOLEAN
  /\ log \in [Scripts -> SUBSET Names]

\* The phases of one full-setup.sh work on one chain, the one it has resolved,
\* as long as .env says nothing against it: what the scripts fill in on their
\* own agrees with what full-setup.sh exports and passes on.
PhasesAgree ==
  full /\ Compatible(shell["CHAIN"]) =>
    \A s \in Scripts : log[s] \subseteq {shell["CHAIN"]}

\* With a complete .env every script stays on its chain, and on the extension
\* minted there, run alone or by full-setup.sh with any --chain.
StaysOnChain ==
  \A c \in Names : Complete(c) =>
    /\ \A s \in Scripts : log[s] \subseteq {c}
    /\ ext \in {c, Unset} \/ switched

\* full-setup.sh:39: "Resolve chain (flag > env > legacy LOCAL_MODE)".
FlagWins == full /\ flag # Unset => shell["CHAIN"] = flag

\* TESTNET_DEPLOYMENT.md:175: "pre-build.sh writes config/extension.env with
\* the active chain's EXTENSION_ID and INSTRUCTION_SENDER. Every re-run
\* overwrites this file".
ConfigOfActiveChain ==
  \A c \in Names : full /\ at = "start-services" /\ Complete(c) => ext = c
=============================================================================
