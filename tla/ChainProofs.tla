----------------------------- MODULE ChainProofs -----------------------------
(***************************************************************************)
(* Proofs about the choice of the chain, for any set of chains, any          *)
(* templates and any sequence of scripts.                                    *)
(***************************************************************************)
EXTENDS ChainSelection, TLAPS

-----------------------------------------------------------------------------
(* What a set of variables may hold, and what the shell functions make of it. *)

LEMMA SettingsAre ==
  ASSUME NEW e
  PROVE  e \in Settings <=>
           /\ e \in [Variables -> Names \cup {"true", "false", Unset}]
           /\ e["LOCAL_MODE"] \in {"true", "false", Unset}
           /\ \A v \in Variables \ {"LOCAL_MODE"} : e[v] \in Names \cup {Unset}
  <1>0. /\ "LOCAL_MODE" \in Variables
        /\ "true" \notin Names /\ "false" \notin Names /\ Unset \notin Names
        /\ Unset # "true" /\ Unset # "false"
    BY ChainAssumption DEF Variables, Unset
  <1>1. ASSUME e \in Settings
        PROVE  /\ e \in [Variables -> Names \cup {"true", "false", Unset}]
               /\ e["LOCAL_MODE"] \in {"true", "false", Unset}
               /\ \A v \in Variables \ {"LOCAL_MODE"} : e[v] \in Names \cup {Unset}
    BY <1>0, <1>1 DEF Settings
  <1>2. ASSUME e \in [Variables -> Names \cup {"true", "false", Unset}],
               e["LOCAL_MODE"] \in {"true", "false", Unset},
               \A v \in Variables \ {"LOCAL_MODE"} : e[v] \in Names \cup {Unset}
        PROVE  e \in Settings
    <2>1. ASSUME NEW v \in Variables
          PROVE  IF v = "LOCAL_MODE" THEN e[v] \notin Names
                 ELSE e[v] \notin {"true", "false"}
      <3>1. CASE v = "LOCAL_MODE"
        BY <1>0, <1>2, <3>1
      <3>2. CASE v # "LOCAL_MODE"
        BY <1>0, <1>2, <2>1, <3>2
      <3>3. QED
        BY <3>1, <3>2
    <2>2. QED
      BY <1>2, <2>1 DEF Settings
  <1>3. QED
    BY <1>1, <1>2

LEMMA NothingIsSet == Nothing \in Settings
  BY SettingsAre DEF Nothing, Variables

LEMMA SourcedIsSet ==
  ASSUME env \in Settings, NEW sh \in Settings
  PROVE  /\ Sourced(sh) \in Settings
         /\ \A v \in Variables : Sourced(sh)[v] = Default(env[v], sh[v])
  BY SettingsAre DEF Sourced, Default, Variables

LEMMA ChainIsName == ASSUME NEW sh \in Settings PROVE Chain(sh) \in Names
  BY SettingsAre, ChainAssumption DEF Chain, Default, Variables

\* What full-setup.sh exports: its chain, and everything that belongs to it
\* which .env has not set.
LEMMA ExportedIsSet ==
  ASSUME env \in Settings, NEW f \in Names \cup {Unset}
  PROVE  /\ Exported(f) \in Settings
         /\ Exported(f)["CHAIN"] \in Names
         /\ env["CHAIN"] # Unset => Exported(f)["CHAIN"] = env["CHAIN"]
         /\ \A v \in {"CHAIN_URL", "ADDRESSES_FILE", "NORMAL_PROXY_URL"} :
              Exported(f)[v] =
                IF Exported(f)["CHAIN"] = "local" THEN env[v]
                ELSE Default(env[v], Exported(f)["CHAIN"])
  <1> DEFINE n == [Nothing EXCEPT !["CHAIN"] = f]
             c == Chain(Resolved(f))
  <1>1. n \in Settings /\ \A v \in Variables \ {"CHAIN"} : n[v] = Unset
    BY NothingIsSet, SettingsAre DEF Nothing, Variables
  <1>2. /\ Resolved(f) \in Settings
        /\ \A v \in Variables : Resolved(f)[v] = Default(env[v], n[v])
    BY <1>1, SourcedIsSet DEF Resolved
  <1>3. c \in Names
    BY <1>2, ChainIsName
  <1>4. /\ Resolved(f)["CHAIN"] = Default(env["CHAIN"], n["CHAIN"])
        /\ \A v \in Variables \ {"CHAIN"} : Resolved(f)[v] = env[v]
    BY <1>1, <1>2 DEF Default, Variables
  <1>5. env["CHAIN"] # Unset => c = env["CHAIN"]
    BY <1>4 DEF Chain, Default
  <1>6. Resolved(f) \in [Variables -> Names \cup {"true", "false", Unset}]
    BY <1>2, SettingsAre
  <1>7. /\ Exported(f) \in [Variables -> Names \cup {"true", "false", Unset}]
        /\ Exported(f)["CHAIN"] = c
        /\ Exported(f)["LOCAL_MODE"] \in {"true", "false"}
        /\ \A v \in {"CHAIN_URL", "ADDRESSES_FILE", "NORMAL_PROXY_URL"} :
             Exported(f)[v] = IF c = "local" THEN Resolved(f)[v]
                              ELSE Default(Resolved(f)[v], c)
    <2> HIDE DEF c
    <2>1. Exported(f) =
            [Resolved(f) EXCEPT
               !["CHAIN"] = c,
               !["LOCAL_MODE"] = IF c = "local" THEN "true" ELSE "false",
               !["CHAIN_URL"] = IF c = "local" THEN @ ELSE Default(@, c),
               !["ADDRESSES_FILE"] = IF c = "local" THEN @ ELSE Default(@, c),
               !["NORMAL_PROXY_URL"] = IF c = "local" THEN @ ELSE Default(@, c)]
      BY DEF Exported, c
    <2>2. QED
      BY <1>3, <1>6, <2>1 DEF Variables, Default
  <1>8. \A v \in {"CHAIN_URL", "ADDRESSES_FILE", "NORMAL_PROXY_URL"} :
          /\ Resolved(f)[v] = env[v] /\ env[v] \in Names \cup {Unset}
    BY <1>4, SettingsAre DEF Variables
  <1> HIDE DEF c
  <1>9. Exported(f) \in Settings
    BY <1>3, <1>7, <1>8, SettingsAre DEF Variables, Default
  <1>10. QED
    BY <1>3, <1>5, <1>7, <1>8, <1>9

-----------------------------------------------------------------------------
(* The inductive invariant.                                                 *)

\* The scripts of a full-setup.sh inherit what it has exported: .env is not
\* replaced while they run.  A script that is run alone inherits nothing.
ShellInv == shell = IF full THEN Exported(flag) ELSE Nothing

ChainInv == TypeOK /\ ShellInv /\ PhasesAgree /\ StaysOnChain

LEMMA ChainInvInit == Init => ChainInv
  <1> SUFFICES ASSUME Init PROVE ChainInv
    OBVIOUS
  <1>1. TypeOK /\ ShellInv /\ PhasesAgree
    BY NothingIsSet DEF Init, TypeOK, ShellInv, PhasesAgree, NoLog, Scripts
  <1>2. StaysOnChain
    BY DEF Init, StaysOnChain, NoLog
  <1>3. QED
    BY <1>1, <1>2 DEF ChainInv

\* Where a script works on chain c: its node, addresses, proxy and overlay.
Places == {URL, Addresses, NormalProxy, Overlay, NodeURL}

LEMMA PlacesAreNames ==
  ASSUME TypeOK, ShellInv
  PROVE  Places \subseteq Names
  <1>1. Here \in Settings
    BY SourcedIsSet DEF Here, TypeOK
  <1>2. Chain(Here) \in Names
    BY <1>1, ChainIsName
  <1>3. full => shell["CHAIN"] \in Names
    BY ExportedIsSet DEF TypeOK, ShellInv
  <1>4. Here["CHAIN_URL"] \in Names \cup {Unset} /\ Here["ADDRESSES_FILE"] \in Names \cup {Unset}
        /\ Here["NORMAL_PROXY_URL"] \in Names \cup {Unset}
    BY <1>1, SettingsAre DEF Variables
  <1>5. QED
    BY <1>2, <1>3, <1>4, ChainAssumption
    DEF Places, URL, Addresses, NormalProxy, Overlay, NodeURL, Default

\* With nothing against its chain in .env, whatever a script of a
\* full-setup.sh fills in by itself is on the chain that was resolved.
LEMMA FullAgrees ==
  ASSUME TypeOK, ShellInv, full, Compatible(shell["CHAIN"])
  PROVE  Places \subseteq {shell["CHAIN"]}
  <1> DEFINE c == shell["CHAIN"]
             Set == {"CHAIN_URL", "ADDRESSES_FILE", "NORMAL_PROXY_URL"}
  <1>1. /\ c \in Names
        /\ \A v \in Set : shell[v] = IF c = "local" THEN env[v] ELSE Default(env[v], c)
    BY ExportedIsSet DEF TypeOK, ShellInv
  <1>2. c \notin {"true", "false", Unset}
    BY <1>1, ChainAssumption
  <1>3. \A v \in Set \cup {"CHAIN"} : env[v] \in {c, Unset}
    <2>1. \A v \in Set \cup {"CHAIN"} : env[v] \in {c, ModeOf(c), Unset}
      BY DEF Compatible, Variables
    <2>2. \A v \in Set \cup {"CHAIN"} : env[v] \notin {"true", "false"}
      BY SettingsAre, ChainAssumption DEF TypeOK, Variables, Unset
    <2>3. QED
      BY <2>1, <2>2 DEF ModeOf
  <1>4. \A v \in Variables : Here[v] = Default(env[v], shell[v])
    BY SourcedIsSet DEF Here, TypeOK
  <1>5. Here["CHAIN"] = c
    BY <1>2, <1>3, <1>4 DEF Variables, Default
  <1>6. \A v \in Set : Here[v] = c \/ (Here[v] = Unset /\ c = "local")
    BY <1>1, <1>2, <1>3, <1>4 DEF Variables, Default
  <1>7. Chain(Here) = c
    BY <1>2, <1>5 DEF Chain, Default
  <1>8. QED
    BY <1>2, <1>6, <1>7
    DEF Places, URL, Addresses, NormalProxy, Overlay, NodeURL, Default

\* With a complete .env every script is on its chain, whatever it inherits.
LEMMA CompleteAgrees ==
  ASSUME TypeOK, ShellInv, NEW c \in Names, Complete(c)
  PROVE  Places \subseteq {c}
  <1>1. c # Unset
    BY ChainAssumption
  <1>2. \A v \in Variables \ {"LOCAL_MODE"} : env[v] = c
    BY DEF Complete
  <1>3. \A v \in Variables : Here[v] = Default(env[v], shell[v])
    BY SourcedIsSet DEF Here, TypeOK
  <1>4. \A v \in Variables \ {"LOCAL_MODE"} : Here[v] = c
    BY <1>1, <1>2, <1>3 DEF Default
  <1>5. Chain(Here) = c
    BY <1>1, <1>4 DEF Chain, Default, Variables
  <1>6. full => shell["CHAIN"] = c
    BY <1>1, <1>2, ExportedIsSet DEF ShellInv, TypeOK, Variables
  <1>7. QED
    BY <1>1, <1>4, <1>5, <1>6
    DEF Places, URL, Addresses, NormalProxy, Overlay, NodeURL, Default, Variables

\* What a phase may do: go on, work on some of its places, and mint the
\* extension on its node's chain.
Phase ==
  /\ UNCHANGED <<env, full, flag, shell>>
  /\ at' \in Scripts \cup {"idle"}
  /\ \/ log' = log
     \/ \E s \in Scripts, chains \in SUBSET Places : log' = [log EXCEPT ![s] = chains]
  /\ \/ UNCHANGED <<ext, switched>>
     \/ ext' = URL /\ switched' = FALSE

LEMMA PhasesAre ==
  ASSUME PreBuild \/ Reuse \/ StartServices \/ PostBuild \/ Test \/ Stops
  PROVE  Phase
  <1>1. CASE Stops
    BY <1>1 DEF Stops, Phase
  <1>2. CASE PreBuild
    BY <1>2 DEF PreBuild, Proceed, Logs, Phase, Scripts, Places
  <1>3. CASE Reuse
    BY <1>3 DEF Reuse, Proceed, Phase, Scripts
  <1>4. CASE StartServices
    BY <1>4 DEF StartServices, Proceed, Logs, Phase, Scripts, Places
  <1>5. CASE PostBuild
    BY <1>5 DEF PostBuild, Proceed, Logs, Phase, Scripts, Places
  <1>6. CASE Test
    BY <1>6 DEF Test, Proceed, Logs, Phase, Scripts, Places
  <1>7. QED
    BY <1>1, <1>2, <1>3, <1>4, <1>5, <1>6

LEMMA PhaseKeeps == ChainInv /\ Phase => ChainInv'
  <1> SUFFICES ASSUME ChainInv, Phase PROVE ChainInv'
    OBVIOUS
  <1>1. TypeOK /\ ShellInv /\ PhasesAgree /\ StaysOnChain
    BY DEF ChainInv
  <1>2. UNCHANGED <<env, full, flag, shell>>
    BY DEF Phase
  <1>3. /\ \A s \in Scripts : log'[s] \subseteq log[s] \cup Places
        /\ log' \in [Scripts -> SUBSET Names]
    BY <1>1, PlacesAreNames DEF Phase, TypeOK
  <1>4. URL \in Places
    BY DEF Places
  <1>5. TypeOK'
    BY <1>1, <1>2, <1>3, <1>4, PlacesAreNames DEF TypeOK, Phase
  <1>6. ShellInv'
    BY <1>1, <1>2 DEF ShellInv, Exported, Resolved, Sourced
  <1>7. PhasesAgree'
    BY <1>1, <1>2, <1>3, FullAgrees DEF PhasesAgree, Compatible
  <1>8. ASSUME NEW c \in Names, Complete(c)'
        PROVE  /\ \A s \in Scripts : log'[s] \subseteq {c}
               /\ ext' \in {c, Unset} \/ switched'
    <2>1. Complete(c)
      BY <1>2, <1>8 DEF Complete
    <2>2. Places \subseteq {c}
      BY <1>1, <2>1, CompleteAgrees
    <2>3. QED
      BY <1>1, <1>3, <1>4, <2>1, <2>2 DEF StaysOnChain, Phase
  <1>9. QED
    BY <1>5, <1>6, <1>7, <1>8 DEF ChainInv, StaysOnChain

LEMMA StartKeeps ==
  ASSUME ChainInv,
         \/ \E t \in Templates : UseChain(t)
         \/ \E f \in Names \cup {Unset} : FullSetup(f)
         \/ \E s \in Scripts : RunAlone(s)
  PROVE  ChainInv'
  <1> USE DEF ChainInv, TypeOK
  <1>1. log' = NoLog /\ ext' = ext /\ at' \in Scripts \cup {"idle"}
    BY DEF UseChain, FullSetup, RunAlone, Scripts
  <1>2. \A s \in Scripts : log'[s] = {}
    BY <1>1 DEF NoLog
  <1>3. ASSUME NEW t \in Templates, UseChain(t) PROVE ChainInv'
    <2>1. TypeOK' /\ ShellInv'
      BY <1>1, <1>3, NothingIsSet, ChainAssumption DEF UseChain, ShellInv, NoLog
    <2>2. PhasesAgree' /\ StaysOnChain'
      BY <1>2, <1>3 DEF UseChain, PhasesAgree, StaysOnChain
    <2>3. QED
      BY <2>1, <2>2
  <1>4. ASSUME NEW f \in Names \cup {Unset}, FullSetup(f) \/ \E s \in Scripts : RunAlone(s)
        PROVE  ChainInv'
    <2>1. UNCHANGED <<env, ext, switched>>
      BY <1>4 DEF FullSetup, RunAlone
    <2>2. \/ full' = TRUE /\ flag' = f /\ shell' = Exported(f)
          \/ full' = FALSE /\ flag' = Unset /\ shell' = Nothing
      BY <1>4 DEF FullSetup, RunAlone
    <2>3. Exported(f) \in Settings
      BY ExportedIsSet
    <2>4. TypeOK'
      BY <1>1, <2>1, <2>2, <2>3, NothingIsSet DEF NoLog
    <2>5. ShellInv'
      BY <2>1, <2>2 DEF ShellInv, Exported, Resolved, Sourced
    <2>6. PhasesAgree'
      BY <1>2 DEF PhasesAgree
    <2>7. StaysOnChain'
      BY <1>2, <2>1 DEF StaysOnChain, Complete
    <2>8. QED
      BY <2>4, <2>5, <2>6, <2>7
  <1>5. QED
    BY <1>3, <1>4

\* In every behaviour the scripts of a full-setup.sh inherit what it exported.
THEOREM ChainInvariant == Spec => []ChainInv
  <1>1. ASSUME ChainInv, UNCHANGED vars PROVE ChainInv'
    <2>1. UNCHANGED <<env, ext, at, full, flag, shell, log, switched>>
      BY <1>1 DEF vars, runVars
    <2>2. TypeOK'
      BY <1>1, <2>1 DEF ChainInv, TypeOK
    <2>3. Exported(flag)' = Exported(flag)
      BY <2>1 DEF Exported, Resolved, Sourced
    <2>4. ShellInv'
      BY <1>1, <2>1, <2>3 DEF ChainInv, ShellInv
    <2>5. PhasesAgree'
      BY <1>1, <2>1 DEF ChainInv, PhasesAgree, Compatible
    <2>6. StaysOnChain'
      BY <1>1, <2>1 DEF ChainInv, StaysOnChain, Complete
    <2>7. QED
      BY <2>2, <2>4, <2>5, <2>6 DEF ChainInv
  <1>2. ChainInv /\ [Next]_vars => ChainInv'
    BY <1>1, PhasesAre, PhaseKeeps, StartKeeps DEF Next
  <1>3. QED
    BY ChainInvInit, <1>2, PTL DEF Spec

\* The phases of one full-setup.sh work on the chain it has resolved, if .env
\* says nothing against it: whichever part of its chain's settings .env has.
THEOREM ChainPhasesAgree == Spec => []PhasesAgree
  <1>1. ChainInv => PhasesAgree
    BY DEF ChainInv
  <1>2. QED
    BY <1>1, ChainInvariant, PTL

\* With a complete .env every script, alone or under full-setup.sh with any
\* --chain, stays on its chain and on the extension minted there.
THEOREM ChainStays == Spec => []StaysOnChain
  <1>1. ChainInv => StaysOnChain
    BY DEF ChainInv
  <1>2. QED
    BY <1>1, ChainInvariant, PTL
=============================================================================
