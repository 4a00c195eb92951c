---------------------------- MODULE OnvifPtz_proofs ----------------------------
(***************************************************************************)
(* Proofs about OnvifPtz, for any finite set of commands at once, any axes *)
(* and any positions.                                                      *)
(***************************************************************************)
EXTENDS OnvifPtz, FiniteSetTheorems, SequenceTheorems, TLAPS

USE CallerAssumption

(* What SetPreset leaves: one preset more without a token, and the same    *)
(* presets with one (ptz.go:160-170).                                      *)
LEMMA SavedFacts ==
  ASSUME presets \in Seq(Position), pos \in Position, NEW k \in 0..Len(presets)
  PROVE  /\ Saved(k) \in Seq(Position)
         /\ Len(Saved(k)) = IF k = 0 THEN Len(presets) + 1 ELSE Len(presets)
         /\ Saved(k) # <<>>
<1>1. CASE k = 0
  BY <1>1, AppendProperties DEF Saved
<1>2. CASE k # 0
  <2>1. k \in 1..Len(presets) /\ Len(presets) \in Nat
    BY <1>2, LenProperties
  <2>2. Saved(k) \in Seq(Position) /\ Len(Saved(k)) = Len(presets)
    BY <1>2, <2>1, ExceptSeq DEF Saved
  <2> QED BY <1>2, <2>1, <2>2, EmptySeq
<1> QED BY <1>1, <1>2

(* The first preset of the name is one of the presets (ptz.go:201-208).    *)
LEMMA NamedFacts ==
  ASSUME presets \in Seq(Position)
  PROVE  NamedPreset \in 0..Len(presets) /\ (NamedPreset = 0 <=> presets = <<>>)
BY EmptySeq, LenProperties DEF NamedPreset

----------------------------------------------------------------------------
(* Types. A caller goes to a preset only with a token that it found.       *)
TypeInv == TypeOK /\ \A c \in Caller : pc[c] = "goto_preset" => token[c] # 0

LEMMA TypeInit == Init => TypeInv
<1> SUFFICES ASSUME Init PROVE TypeInv
  OBVIOUS
<1>1. behind \in BOOLEAN /\ native \in BOOLEAN /\ refused \in BOOLEAN
  BY Zenon DEF Init
<1>2. presets \in Seq(Position) /\ Len(presets) = 0
  BY EmptySeq DEF Init
<1>3. moving \subseteq Axis /\ left \subseteq Axis /\ expected \subseteq Position
  BY DEF Init
<1>4. pos \in Position /\ home \in Position \cup {None}
  BY DEF Init
<1>5. /\ pc \in [Caller -> {"idle"} \cup Begins \cup MovePc \cup HomePc]
      /\ \A c \in Caller : pc[c] # "goto_preset"
  BY DEF Init
<1>6. axes \in [Caller -> SUBSET Axis]
  BY DEF Init
<1>7. token \in [Caller -> 0..Len(presets)]
  BY <1>2 DEF Init
<1>8. answer \in [Caller -> {"none", "ok", "error"}]
  BY DEF Init
<1> QED BY <1>1, <1>2, <1>3, <1>4, <1>5, <1>6, <1>7, <1>8 DEF TypeInv, TypeOK

(* The part of a state that belongs to the command.                        *)
CommandOK ==
  /\ pc     \in [Caller -> {"idle"} \cup Begins \cup MovePc \cup HomePc]
  /\ axes   \in [Caller -> SUBSET Axis]
  /\ token  \in [Caller -> 0..Len(presets)]
  /\ answer \in [Caller -> {"none", "ok", "error"}]
  /\ \A c \in Caller : pc[c] = "goto_preset" => token[c] # 0

CameraOK ==
  /\ moving   \subseteq Axis
  /\ pos      \in Position /\ home \in Position \cup {None}
  /\ presets  \in Seq(Position)
  /\ left     \subseteq Axis
  /\ expected \subseteq Position

FlagsOK == behind \in BOOLEAN /\ native \in BOOLEAN /\ refused \in BOOLEAN

LEMMA GoTyped ==
  ASSUME CommandOK, NEW c \in Caller, NEW n \in MovePc \cup HomePc, n # "goto_preset",
         Go(c, n), Len(presets') = Len(presets)
  PROVE  CommandOK'
BY DEF CommandOK, Go

LEMMA ReturnTyped ==
  ASSUME CommandOK, CameraOK, NEW c \in Caller, NEW a \in {"none", "ok", "error"}, Return(c, a),
         Len(presets') \in Nat, Len(presets) <= Len(presets')
  PROVE  CommandOK'
<1>1. token' \in [Caller -> 0..Len(presets')]
  BY LenProperties DEF CommandOK, CameraOK, Return
<1> QED BY <1>1 DEF CommandOK, Return

LEMMA TypeNext == TypeInv /\ [Next]_vars => TypeInv'
<1> SUFFICES ASSUME CommandOK, CameraOK, FlagsOK, [Next]_vars
             PROVE  CommandOK' /\ CameraOK' /\ FlagsOK'
  BY DEF TypeInv, TypeOK, CommandOK, CameraOK, FlagsOK
<1>0. Len(presets) \in Nat
  BY LenProperties DEF CameraOK
<1>1. ASSUME NEW c \in Caller, Start(c) PROVE CommandOK' /\ CameraOK' /\ FlagsOK'
  <2>1. CameraOK' /\ FlagsOK' /\ presets' = presets /\ token' = token
    BY <1>1 DEF Start, CameraOK, FlagsOK, setup, camera, history
  <2>2. PICK b \in Begins, A \in SUBSET Axis :
          pc' = [pc EXCEPT ![c] = b] /\ axes' = [axes EXCEPT ![c] = A]
    BY <1>1 DEF Start
  <2>3. answer' \in [Caller -> {"none", "ok", "error"}]
    BY <1>1 DEF Start, CommandOK
  <2>4. b # "goto_preset"
    BY DEF Begins
  <2> QED BY <2>1, <2>2, <2>3, <2>4 DEF CommandOK
<1>2. ASSUME NEW c \in Caller, Discover(c) PROVE CommandOK' /\ CameraOK' /\ FlagsOK'
  <2>1. CameraOK' /\ FlagsOK' /\ presets' = presets
    BY <1>2 DEF Discover, CameraOK, FlagsOK, setup, camera, history
  <2>2. FirstCall(pc[c]) \in MovePc \cup HomePc /\ FirstCall(pc[c]) # "goto_preset"
    BY <1>2 DEF Discover, FirstCall, Begins, MovePc, HomePc
  <2> QED BY <1>2, <1>0, <2>1, <2>2, GoTyped, ReturnTyped DEF Discover
<1>3. ASSUME NEW c \in Caller, StartMove(c) PROVE CommandOK' /\ CameraOK' /\ FlagsOK'
  <2>1. axes[c] \subseteq Axis
    BY DEF CommandOK
  <2>2. CameraOK' /\ FlagsOK' /\ presets' = presets
    BY <1>3, <2>1 DEF StartMove, Leaves, CameraOK, FlagsOK, setup
  <2> QED BY <1>3, <1>0, <2>2, GoTyped, ReturnTyped DEF StartMove, MovePc
<1>4. ASSUME NEW c \in Caller, Pause(c) PROVE CommandOK' /\ CameraOK' /\ FlagsOK'
  <2>1. axes[c] \subseteq Axis
    BY DEF CommandOK
  <2>2. CameraOK' /\ FlagsOK' /\ presets' = presets
    BY <1>4, <2>1 DEF Pause, Leaves, CameraOK, FlagsOK, setup, camera
  <2> QED BY <1>4, <1>0, <2>2, GoTyped, ReturnTyped DEF Pause, MovePc
<1>5. ASSUME NEW c \in Caller, Stop(c) PROVE CommandOK' /\ CameraOK' /\ FlagsOK'
  <2>1. axes[c] \subseteq Axis
    BY DEF CommandOK
  <2>2. CameraOK' /\ FlagsOK' /\ presets' = presets
    BY <1>5, <2>1 DEF Stop, Leaves, CameraOK, FlagsOK, setup
  <2> QED BY <1>5, <1>0, <2>2, ReturnTyped DEF Stop
<1>6. ASSUME NEW c \in Caller, MoveRefused(c) \/ PresetRefused(c)
      PROVE  CommandOK' /\ CameraOK' /\ FlagsOK'
  <2>1. CameraOK' /\ FlagsOK' /\ presets' = presets
    BY <1>6 DEF MoveRefused, PresetRefused, CameraOK, FlagsOK, setup, camera, history
  <2> QED BY <1>6, <1>0, <2>1, ReturnTyped DEF MoveRefused, PresetRefused
<1>7. ASSUME NEW c \in Caller, SetNativeHome(c) PROVE CommandOK' /\ CameraOK' /\ FlagsOK'
  <2>1. CameraOK' /\ presets' = presets
    BY <1>7 DEF SetNativeHome, Stored, CameraOK
  <2>2. FlagsOK'
    <3>1. UNCHANGED <<behind, native>> /\ (refused' = refused \/ refused' = TRUE)
      BY <1>7 DEF SetNativeHome, setup
    <3> QED BY <3>1, Zenon DEF FlagsOK
  <2>3. Go(c, "set_lookup") \/ Return(c, "ok")
    BY <1>7, Zenon DEF SetNativeHome
  <2> QED BY <1>0, <2>1, <2>2, <2>3, GoTyped, ReturnTyped DEF HomePc
<1>8. ASSUME NEW c \in Caller, GotoNativeHome(c) PROVE CommandOK' /\ CameraOK' /\ FlagsOK'
  <2>1. CameraOK' /\ presets' = presets
    BY <1>8 DEF GotoNativeHome, Turn, CameraOK
  <2>2. FlagsOK'
    <3>1. UNCHANGED <<behind, native>> /\ (refused' = refused \/ refused' = (refused \/ home # None))
      BY <1>8 DEF GotoNativeHome, setup
    <3> QED BY <3>1, Zenon DEF FlagsOK
  <2> QED BY <1>8, <1>0, <2>1, <2>2, GoTyped, ReturnTyped DEF GotoNativeHome, HomePc
<1>9. ASSUME NEW c \in Caller, NativeRefused(c) PROVE CommandOK' /\ CameraOK' /\ FlagsOK'
  <2>1. CameraOK' /\ presets' = presets
    BY <1>9 DEF NativeRefused, CameraOK, camera
  <2>2. FlagsOK'
    <3>1. refused' = (refused \/ native) /\ UNCHANGED <<behind, native>>
      BY <1>9 DEF NativeRefused, setup
    <3> QED BY <3>1, Zenon DEF FlagsOK
  <2> QED BY <1>9, <1>0, <2>1, <2>2, GoTyped DEF NativeRefused, HomePc
<1>10. ASSUME NEW c \in Caller, Lookup(c) PROVE CommandOK' /\ CameraOK' /\ FlagsOK'
  <2>1. CameraOK' /\ FlagsOK' /\ presets' = presets
    BY <1>10 DEF Lookup, CameraOK, FlagsOK, setup, camera, history
  <2>2. NamedPreset \in 0..Len(presets)
    BY NamedFacts DEF CameraOK
  <2>3. CASE /\ pc[c] = "set_lookup" \/ NamedPreset # 0
             /\ pc' = [pc EXCEPT ![c] = IF @ = "set_lookup" THEN "set_preset" ELSE "goto_preset"]
             /\ token' = [token EXCEPT ![c] = NamedPreset]
             /\ UNCHANGED <<axes, answer>>
    BY <2>1, <2>2, <2>3 DEF CommandOK, HomePc
  <2>4. CASE Return(c, "error")
    BY <2>1, <2>4, <1>0, ReturnTyped
  <2> QED BY <1>10, <2>1, <2>3, <2>4 DEF Lookup
<1>11. ASSUME NEW c \in Caller, SetPreset(c) PROVE CommandOK' /\ CameraOK' /\ FlagsOK'
  <2>1. token[c] \in 0..Len(presets)
    BY DEF CommandOK
  <2>2. presets' \in Seq(Position) /\ Len(presets') \in Nat /\ Len(presets) <= Len(presets')
    BY <1>11, <2>1, <1>0, SavedFacts DEF SetPreset, CameraOK
  <2>3. CameraOK' /\ FlagsOK'
    BY <1>11, <2>2 DEF SetPreset, Stored, CameraOK, FlagsOK, setup
  <2> QED BY <1>11, <2>2, <2>3, ReturnTyped DEF SetPreset
<1>12. ASSUME NEW c \in Caller, GotoPreset(c) PROVE CommandOK' /\ CameraOK' /\ FlagsOK'
  <2>1. token[c] \in 1..Len(presets)
    BY <1>12, <1>0 DEF GotoPreset, CommandOK
  <2>2. presets[token[c]] \in Position
    BY <2>1, LenProperties DEF CameraOK
  <2>3. CameraOK' /\ FlagsOK' /\ presets' = presets
    BY <1>12, <2>2 DEF GotoPreset, Turn, CameraOK, FlagsOK, setup
  <2> QED BY <1>12, <1>0, <2>3, ReturnTyped DEF GotoPreset
<1>13. ASSUME NEW c \in Caller, Die(c) PROVE CommandOK' /\ CameraOK' /\ FlagsOK'
  <2>1. axes[c] \subseteq Axis
    BY DEF CommandOK
  <2>2. CameraOK' /\ FlagsOK' /\ presets' = presets
    BY <1>13, <2>1 DEF Die, Leaves, CameraOK, FlagsOK, setup, camera
  <2> QED BY <1>13, <1>0, <2>2, ReturnTyped DEF Die
<1>14. CASE Drift
  BY <1>14 DEF Drift, CommandOK, CameraOK, FlagsOK, setup, command, history
<1>15. CASE UNCHANGED vars
  BY <1>15 DEF vars, CommandOK, CameraOK, FlagsOK, setup, camera, command, history
<1> QED BY <1>1, <1>2, <1>3, <1>4, <1>5, <1>6, <1>7, <1>8, <1>9, <1>10, <1>11, <1>12, <1>13,
           <1>14, <1>15 DEF Next, CallerStep

LEMMA TypeAlways == Spec => []TypeInv
BY TypeInit, TypeNext, PTL DEF Spec

(* Every variable keeps its type: a preset's token names a preset.         *)
THEOREM TypeCorrect == Spec => []TypeOK
<1>1. TypeInv => TypeOK
  BY DEF TypeInv
<1> QED BY <1>1, TypeAlways, PTL

----------------------------------------------------------------------------
(* Movement                                                                *)

Between(c) == pc[c] \in {"pause", "stop"}

(* What moves is left by a command that ended, or one is at it.            *)
LEMMA AccountedBy ==
  MovesAreAccounted <=> \A x \in moving : x \in left \/ \E c \in Caller : (Between(c) /\ x \in axes[c])
<1>1. UNION {axes[c] : c \in {d \in Caller : pc[d] \in {"pause", "stop"}}}
        = UNION {axes[c] : c \in {d \in Caller : Between(d)}}
  BY DEF Between
<1>2. ASSUME NEW x
      PROVE  x \in UNION {axes[c] : c \in {d \in Caller : Between(d)}}
               <=> \E c \in Caller : Between(c) /\ x \in axes[c]
  OBVIOUS
<1> QED BY <1>1, <1>2 DEF MovesAreAccounted

Accounted == \A x \in moving : x \in left \/ \E c \in Caller : (Between(c) /\ x \in axes[c])

LEMMA AccountedNext == TypeInv /\ Accounted /\ [Next]_vars => Accounted'
<1> SUFFICES ASSUME TypeInv, Accounted, [Next]_vars PROVE Accounted'
  OBVIOUS
<1>0. /\ pc \in [Caller -> {"idle"} \cup Begins \cup MovePc \cup HomePc]
      /\ axes \in [Caller -> SUBSET Axis]
  BY DEF TypeInv, TypeOK
(* A command that is not at a movement begins, goes on or ends.            *)
<1>1. ASSUME NEW c \in Caller, ~Between(c), moving' = {} \/ (moving' = moving /\ left' = left),
             \A d \in Caller \ {c} : pc'[d] = pc[d] /\ axes'[d] = axes[d]
      PROVE  Accounted'
  BY <1>1 DEF Accounted, Between
<1>2. ASSUME NEW c \in Caller, Start(c) \/ Discover(c) \/ MoveRefused(c) \/ PresetRefused(c)
                                 \/ NativeRefused(c) \/ Lookup(c)
      PROVE  Accounted'
  <2>1. moving' = moving /\ left' = left
    BY <1>2 DEF Start, Discover, MoveRefused, PresetRefused, NativeRefused, Lookup, camera, history
  <2>2. ~Between(c)
    BY <1>2 DEF Start, Discover, MoveRefused, PresetRefused, NativeRefused, Lookup, Between, Begins
  <2>3. \A d \in Caller \ {c} : pc'[d] = pc[d] /\ axes'[d] = axes[d]
    BY <1>2, <1>0 DEF Start, Discover, MoveRefused, PresetRefused, NativeRefused, Lookup, Go, Return
  <2> QED BY <2>1, <2>2, <2>3, <1>1
<1>3. ASSUME NEW c \in Caller, SetNativeHome(c) \/ GotoNativeHome(c) \/ SetPreset(c) \/ GotoPreset(c)
      PROVE  Accounted'
  <2>1. moving' = {} \/ (moving' = moving /\ left' = left)
    <3>1. CASE SetNativeHome(c) \/ SetPreset(c)
      BY <3>1 DEF SetNativeHome, SetPreset, setup
    <3>2. CASE GotoNativeHome(c)
      BY <3>2 DEF GotoNativeHome, Turn, setup
    <3>3. CASE GotoPreset(c)
      BY <3>3 DEF GotoPreset, Turn, setup
    <3> QED BY <1>3, <3>1, <3>2, <3>3
  <2>2. ~Between(c)
    BY <1>3 DEF SetNativeHome, GotoNativeHome, SetPreset, GotoPreset, Between
  <2>3. \A d \in Caller \ {c} : pc'[d] = pc[d] /\ axes'[d] = axes[d]
    BY <1>3, <1>0 DEF SetNativeHome, GotoNativeHome, SetPreset, GotoPreset, Go, Return
  <2> QED BY <2>1, <2>2, <2>3, <1>1
(* A movement begins: its axes are its own, or left by it.                 *)
<1>4. ASSUME NEW c \in Caller, StartMove(c) PROVE Accounted'
  <2>1. \A d \in Caller \ {c} : pc'[d] = pc[d] /\ axes'[d] = axes[d]
    BY <1>4, <1>0 DEF StartMove, Go, Return
  <2>2. ~Between(c) /\ moving' = moving \cup axes[c] /\ left \subseteq left'
    BY <1>4 DEF StartMove, Between, Leaves
  <2>3. (Between(c)' /\ axes'[c] = axes[c]) \/ axes[c] \subseteq left'
    BY <1>4, <1>0 DEF StartMove, Go, Leaves, Between
  <2> QED BY <2>1, <2>2, <2>3 DEF Accounted, Between
(* It waits, or its context ends; or its process dies.                     *)
<1>5. ASSUME NEW c \in Caller, Pause(c) \/ Die(c) PROVE Accounted'
  <2>1. \A d \in Caller \ {c} : pc'[d] = pc[d] /\ axes'[d] = axes[d]
    BY <1>5, <1>0 DEF Pause, Die, Go, Return
  <2>2. moving' = moving /\ left \subseteq left'
    BY <1>5 DEF Pause, Die, Leaves, camera
  <2>3. ~Between(c) \/ (Between(c)' /\ axes'[c] = axes[c]) \/ axes[c] \subseteq left'
    <3>1. CASE Pause(c)
      BY <3>1, <1>0 DEF Pause, Go, Leaves, Between
    <3>2. CASE Die(c)
      BY <3>2, <1>0 DEF Die, Leaves, Between, setup, camera
    <3> QED BY <1>5, <3>1, <3>2
  <2> QED BY <2>1, <2>2, <2>3 DEF Accounted, Between
(* Its Stop takes away what it is accountable for, or fails.               *)
<1>6. ASSUME NEW c \in Caller, Stop(c) PROVE Accounted'
  <2>1. \A d \in Caller \ {c} : pc'[d] = pc[d] /\ axes'[d] = axes[d]
    BY <1>6, <1>0 DEF Stop, Return
  <2>2. \/ moving' = moving \ axes[c] /\ left' = left \ axes[c]
        \/ moving' = moving /\ left' = left \cup axes[c]
    BY <1>6 DEF Stop, StopAxes, Leaves
  <2> QED BY <2>1, <2>2 DEF Accounted, Between
<1>7. CASE Drift
  BY <1>7 DEF Drift, command, history, Accounted, Between
<1>8. CASE UNCHANGED vars
  BY <1>8 DEF vars, camera, command, history, Accounted, Between
<1> QED BY <1>2, <1>3, <1>4, <1>5, <1>6, <1>7, <1>8 DEF Next, CallerStep

(* A movement that nobody will stop belongs to a command that did not      *)
(* succeed, whatever commands overlap at a camera.                         *)
THEOREM NothingMovesUnnoticed == Spec => []MovesAreAccounted
<1>1. Init => Accounted
  BY DEF Init, Accounted
<1>2. Accounted => MovesAreAccounted
  BY AccountedBy DEF Accounted
<1> QED BY <1>1, <1>2, AccountedNext, TypeAlways, PTL DEF Spec

----------------------------------------------------------------------------
(* Presets. A caller at set_preset without a token will make a preset: it  *)
(* looked when there was none. They and the presets that are there are     *)
(* together no more than the commands that can run at once.                *)
Creating == {c \in Caller : pc[c] = "set_preset" /\ token[c] = 0}

Limit == IF behind THEN 1 ELSE Cardinality(Caller)

Alone == behind => \A c, d \in Caller : (pc[c] # "idle" /\ pc[d] # "idle") => c = d

PresetInv ==
  /\ Alone
  /\ presets # <<>> => Len(presets) + Cardinality(Creating) <= Limit

LEMMA CreatingFacts ==
  /\ IsFiniteSet(Creating)
  /\ Cardinality(Creating) \in Nat
  /\ Alone => Cardinality(Creating) <= Limit
  /\ Cardinality(Caller) \in Nat
<1>1. /\ IsFiniteSet(Creating)
      /\ Cardinality(Creating) <= Cardinality(Caller)
      /\ Cardinality(Creating) \in Nat /\ Cardinality(Caller) \in Nat
  BY FS_Subset, FS_CardinalityType DEF Creating
<1>2. ASSUME Alone, behind PROVE Cardinality(Creating) <= 1
  <2>1. CASE Creating = {}
    BY <2>1, FS_EmptySet
  <2>2. CASE Creating # {}
    <3>1. PICK c \in Caller : c \in Creating
      BY <2>2 DEF Creating
    <3>2. Creating = {c}
      BY <3>1, <1>2 DEF Creating, Alone
    <3>3. Cardinality({c}) = 1
      BY FS_Singleton, Zenon
    <3> QED BY <3>2, <3>3
  <2> QED BY <2>1, <2>2
<1> QED BY <1>1, <1>2 DEF Limit

(* A command ends, or goes where it does not make a preset.                *)
LEMMA FewerCreating ==
  ASSUME IsFiniteSet(Creating), Creating' \subseteq Creating
  PROVE  Cardinality(Creating') <= Cardinality(Creating)
BY FS_Subset

LEMMA AloneNext == TypeInv /\ Alone /\ [Next]_vars => Alone'
<1> SUFFICES ASSUME TypeInv, Alone, [Next]_vars PROVE Alone'
  OBVIOUS
<1>0. pc \in [Caller -> {"idle"} \cup Begins \cup MovePc \cup HomePc]
  BY DEF TypeInv, TypeOK
<1>1. ASSUME NEW c \in Caller, CallerStep(c) PROVE Alone'
  <2>1. behind' = behind /\ \A d \in Caller \ {c} : pc'[d] = pc[d]
    <3>1. CASE Start(c) \/ Discover(c) \/ StartMove(c) \/ MoveRefused(c) \/ Pause(c) \/ Stop(c)
      BY <3>1, <1>0 DEF Start, Discover, StartMove, MoveRefused, Pause, Stop, Go, Return, setup
    <3>2. CASE SetNativeHome(c) \/ GotoNativeHome(c) \/ NativeRefused(c) \/ Lookup(c)
      BY <3>2, <1>0 DEF SetNativeHome, GotoNativeHome, NativeRefused, Lookup, Go, Return, setup
    <3>3. CASE SetPreset(c) \/ GotoPreset(c) \/ PresetRefused(c) \/ Die(c)
      BY <3>3, <1>0 DEF SetPreset, GotoPreset, PresetRefused, Die, Return, setup
    <3> QED BY <1>1, <3>1, <3>2, <3>3 DEF CallerStep
  <2>2. CASE Start(c)
    BY <2>1, <2>2 DEF Start, Alone
  <2>3. CASE ~Start(c)
    <3>1. pc[c] # "idle"
      BY <1>1, <2>3 DEF CallerStep, Discover, StartMove, MoveRefused, Pause, Stop, SetNativeHome,
                        GotoNativeHome, NativeRefused, Lookup, SetPreset, GotoPreset, PresetRefused,
                        Die, Begins
    <3> QED BY <2>1, <3>1 DEF Alone
  <2> QED BY <2>2, <2>3
<1>2. CASE Drift \/ UNCHANGED vars
  BY <1>2 DEF Drift, vars, setup, command, Alone
<1> QED BY <1>1, <1>2 DEF Next

LEMMA PresetNext == TypeInv /\ PresetInv /\ [Next]_vars => PresetInv'
<1> SUFFICES ASSUME TypeInv, PresetInv, [Next]_vars PROVE PresetInv'
  OBVIOUS
<1>0. /\ pc \in [Caller -> {"idle"} \cup Begins \cup MovePc \cup HomePc]
      /\ token \in [Caller -> 0..Len(presets)] /\ presets \in Seq(Position) /\ pos \in Position
      /\ Len(presets) \in Nat
  BY LenProperties DEF TypeInv, TypeOK
<1>1. Alone'
  BY AloneNext DEF PresetInv
<1>2. ASSUME behind' = behind, Len(presets') = Len(presets), presets # <<>> \/ presets' = <<>>,
             Creating' \subseteq Creating
      PROVE  PresetInv'
  <2>1. Cardinality(Creating') <= Cardinality(Creating) /\ Cardinality(Creating') \in Nat
    BY <1>2, CreatingFacts, FewerCreating, FS_Subset, FS_CardinalityType
  <2> QED BY <1>0, <1>1, <1>2, <2>1, CreatingFacts DEF PresetInv, Limit
<1>3. ASSUME NEW c \in Caller, CallerStep(c), ~Lookup(c), ~SetPreset(c) PROVE PresetInv'
  <2>1. behind' = behind /\ presets' = presets
    BY <1>3 DEF CallerStep, Start, Discover, StartMove, MoveRefused, Pause, Stop, SetNativeHome,
                GotoNativeHome, NativeRefused, GotoPreset, PresetRefused, Die, setup, camera
  <2>2. \A d \in Caller : pc'[d] = "set_preset" => (pc[d] = "set_preset" /\ token'[d] = token[d])
    <3>1. CASE Start(c)
      BY <3>1, <1>0 DEF Start, Begins
    <3>2. CASE Discover(c)
      BY <3>2, <1>0 DEF Discover, FirstCall, Go, Return, Begins
    <3>3. CASE StartMove(c) \/ MoveRefused(c) \/ Pause(c) \/ Stop(c)
      BY <3>3, <1>0 DEF StartMove, MoveRefused, Pause, Stop, Go, Return
    <3>4. CASE SetNativeHome(c) \/ GotoNativeHome(c) \/ NativeRefused(c)
      BY <3>4, <1>0 DEF SetNativeHome, GotoNativeHome, NativeRefused, Go, Return
    <3>5. CASE GotoPreset(c) \/ PresetRefused(c) \/ Die(c)
      BY <3>5, <1>0 DEF GotoPreset, PresetRefused, Die, Return
    <3> QED BY <1>3, <3>1, <3>2, <3>3, <3>4, <3>5 DEF CallerStep
  <2>3. Creating' \subseteq Creating
    BY <2>2 DEF Creating
  <2> QED BY <1>2, <2>1, <2>3
(* A lookup that finds a preset makes its caller use that one.             *)
<1>4. ASSUME NEW c \in Caller, Lookup(c) PROVE PresetInv'
  <2>1. behind' = behind /\ presets' = presets
    BY <1>4 DEF Lookup, setup, camera
  <2>2. CASE presets = <<>>
    BY <1>1, <2>1, <2>2 DEF PresetInv
  <2>3. CASE presets # <<>>
    <3>1. NamedPreset # 0
      BY <2>3, <1>0, NamedFacts
    <3>2. \A d \in Caller : (pc'[d] = "set_preset" /\ token'[d] = 0)
                              => (pc[d] = "set_preset" /\ token[d] = 0)
      BY <1>4, <1>0, <3>1 DEF Lookup, Return
    <3> QED BY <1>2, <2>1, <2>3, <3>2 DEF Creating
  <2> QED BY <2>2, <2>3
<1>5. ASSUME NEW c \in Caller, SetPreset(c) PROVE PresetInv'
  <2>1. behind' = behind /\ presets' = Saved(token[c]) /\ pc[c] = "set_preset"
    BY <1>5 DEF SetPreset, setup
  <2>2. token[c] \in 0..Len(presets)
    BY <1>0
  <2>3. Creating' \subseteq Creating \ {c}
    BY <1>5, <1>0 DEF SetPreset, Return, Creating
  <2>4. CASE token[c] # 0
    <3>1. Len(presets') = Len(presets) /\ presets # <<>>
      BY <2>1, <2>2, <2>4, <1>0, SavedFacts, EmptySeq
    <3> QED BY <1>2, <2>1, <2>3, <3>1
  <2>5. CASE token[c] = 0
    <3>1. Len(presets') = Len(presets) + 1
      BY <2>1, <2>2, <2>5, <1>0, SavedFacts
    <3>2. c \in Creating
      BY <2>1, <2>5 DEF Creating
    <3>3. IsFiniteSet(Creating \ {c}) /\ Cardinality(Creating \ {c}) = Cardinality(Creating) - 1
      BY <3>2, CreatingFacts, FS_RemoveElement
    <3>4. Cardinality(Creating') <= Cardinality(Creating) - 1 /\ Cardinality(Creating') \in Nat
      BY <2>3, <3>3, FS_Subset, FS_CardinalityType
    <3>5. Len(presets) + Cardinality(Creating) <= Limit
      <4>1. CASE presets = <<>>
        BY <4>1, CreatingFacts, EmptySeq DEF PresetInv
      <4> QED BY <4>1 DEF PresetInv
    <3>6. Limit' = Limit /\ Limit \in Nat
      BY <2>1, CreatingFacts DEF Limit
    <3> QED BY <1>0, <1>1, <3>1, <3>4, <3>5, <3>6, CreatingFacts DEF PresetInv
  <2> QED BY <2>4, <2>5
<1>6. CASE Drift \/ UNCHANGED vars
  <2>1. behind' = behind /\ presets' = presets /\ pc' = pc /\ token' = token
    BY <1>6 DEF Drift, vars, setup, camera, command
  <2> QED BY <2>1, <1>2 DEF Creating
<1> QED BY <1>3, <1>4, <1>5, <1>6 DEF Next

(* Set Home behind an agent makes one preset for good; at a camera that    *)
(* the cloud reaches directly no more than the requests that overlap.      *)
THEOREM PresetsAreReused == Spec => []PresetReused
<1>1. Init => PresetInv
  BY DEF Init, PresetInv, Alone
<1>2. TypeInv /\ PresetInv => PresetReused
  <2> SUFFICES ASSUME TypeInv, PresetInv PROVE Len(presets) <= Limit
    BY DEF PresetReused, Limit
  <2>1. presets \in Seq(Position) /\ Len(presets) \in Nat /\ Limit \in Nat
    BY LenProperties, CreatingFacts DEF TypeInv, TypeOK, Limit
  <2>2. CASE presets = <<>>
    BY <2>1, <2>2, EmptySeq
  <2>3. CASE presets # <<>>
    BY <2>1, <2>3, CreatingFacts DEF PresetInv
  <2> QED BY <2>2, <2>3
<1> QED BY <1>1, <1>2, PresetNext, TypeAlways, PTL DEF Spec

----------------------------------------------------------------------------
(* The home position. A camera whose native calls work has no preset of    *)
(* the name; the one preset of a camera without them is where SetHome put  *)
(* it.                                                                     *)
NativeHome ==
  /\ presets = <<>>
  /\ home = None \/ home \in expected
  /\ \A c \in Caller : pc[c] \notin {"set_lookup", "set_preset", "goto_preset"}

PresetHome == \A i \in 1..Len(presets) : presets[i] \in expected

HomeInv == (behind /\ ~refused) => ((native => NativeHome) /\ (~native => PresetHome))

(* Behind an agent SetPreset leaves one preset, which is the position.     *)
LEMMA OnePreset ==
  ASSUME TypeInv, PresetInv, NEW c \in Caller, SetPreset(c), Len(presets') <= 1
  PROVE  \A i \in 1..Len(presets') : presets'[i] = pos
<1>0. /\ presets \in Seq(Position) /\ pos \in Position /\ token[c] \in 0..Len(presets)
      /\ Len(presets) \in Nat
  BY LenProperties DEF TypeInv, TypeOK
<1>1. presets' = Saved(token[c])
  BY DEF SetPreset
<1>2. CASE token[c] = 0
  <2>1. Len(presets) = 0
    BY <1>0, <1>1, <1>2, SavedFacts
  <2>2. presets' = Append(presets, pos) /\ Len(presets') = 1 /\ presets'[1] = pos
    BY <1>0, <1>1, <1>2, <2>1, AppendProperties DEF Saved
  <2> QED BY <2>2
<1>3. CASE token[c] # 0
  <2>1. Len(presets') = Len(presets) /\ presets' = [presets EXCEPT ![token[c]] = pos]
    BY <1>0, <1>1, <1>3, SavedFacts DEF Saved
  <2>2. token[c] = 1 /\ Len(presets) = 1
    BY <1>0, <1>3, <2>1
  <2>3. presets'[1] = pos
    BY <1>0, <2>1, <2>2, ExceptSeq
  <2> QED BY <2>1, <2>2, <2>3
<1> QED BY <1>2, <1>3

LEMMA HomeNext ==
  TypeInv /\ PresetInv /\ PresetReused' /\ HomeInv /\ [Next]_vars => HomeInv'
<1> SUFFICES ASSUME TypeInv, PresetInv, PresetReused', HomeInv, [Next]_vars, behind', ~refused'
             PROVE  (native => NativeHome)' /\ (~native => PresetHome)'
  BY DEF HomeInv
<1>0. /\ pc \in [Caller -> {"idle"} \cup Begins \cup MovePc \cup HomePc]
      /\ behind \in BOOLEAN /\ native \in BOOLEAN /\ refused \in BOOLEAN
      /\ presets \in Seq(Position) /\ Len(presets) \in Nat
  BY LenProperties DEF TypeInv, TypeOK
<1>1. ASSUME behind' = behind, native' = native, refused = FALSE
      PROVE  (native => NativeHome) /\ (~native => PresetHome)
  BY <1>1 DEF HomeInv
<1>2. ASSUME behind' = behind, native' = native, refused = FALSE,
             presets' = presets, home' = home, expected' = expected,
             \A c \in Caller : native /\ pc'[c] \in {"set_lookup", "set_preset", "goto_preset"}
                                 => pc'[c] = pc[c]
      PROVE  (native => NativeHome)' /\ (~native => PresetHome)'
  BY <1>1, <1>2 DEF NativeHome, PresetHome
<1>3. ASSUME NEW c \in Caller, \/ Start(c) \/ Discover(c) \/ StartMove(c) \/ MoveRefused(c) \/ Pause(c)
                               \/ Stop(c) \/ GotoPreset(c) \/ PresetRefused(c) \/ Die(c)
      PROVE  (native => NativeHome)' /\ (~native => PresetHome)'
  <2>1. /\ behind' = behind /\ native' = native /\ refused' = refused
        /\ presets' = presets /\ home' = home /\ expected' = expected
    BY <1>3 DEF Start, Discover, StartMove, MoveRefused, Pause, Stop, GotoPreset, PresetRefused, Die,
                setup, camera, history
  <2>2. \A d \in Caller : pc'[d] \in {"set_lookup", "set_preset", "goto_preset"} => pc'[d] = pc[d]
    <3>1. CASE Start(c)
      BY <3>1, <1>0 DEF Start, Begins
    <3>2. CASE Discover(c)
      BY <3>2, <1>0 DEF Discover, FirstCall, Go, Return, Begins
    <3>3. CASE StartMove(c) \/ MoveRefused(c) \/ Pause(c) \/ Stop(c)
      BY <3>3, <1>0 DEF StartMove, MoveRefused, Pause, Stop, Go, Return
    <3>4. CASE GotoPreset(c) \/ PresetRefused(c) \/ Die(c)
      BY <3>4, <1>0 DEF GotoPreset, PresetRefused, Die, Return
    <3> QED BY <1>3, <3>1, <3>2, <3>3, <3>4
  <2>3. refused = FALSE
    BY <1>0, <2>1
  <2> QED BY <1>2, <2>1, <2>2, <2>3
<1>4. ASSUME NEW c \in Caller, SetNativeHome(c) PROVE (native => NativeHome)' /\ (~native => PresetHome)'
  <2>1. /\ Return(c, "ok") /\ Stored(TRUE) /\ refused' = refused
        /\ native /\ home' = pos /\ presets' = presets /\ behind' = behind /\ native' = native
    BY <1>4 DEF SetNativeHome, setup
  <2>2. refused = FALSE
    BY <1>0, <2>1
  <2>3. NativeHome /\ home' \in expected'
    BY <1>1, <2>1, <2>2 DEF Stored
  <2> QED BY <1>0, <2>1, <2>3 DEF NativeHome, Return
<1>5. ASSUME NEW c \in Caller, GotoNativeHome(c) PROVE (native => NativeHome)' /\ (~native => PresetHome)'
  <2>1. /\ home' = home /\ presets' = presets /\ expected' = expected
        /\ behind' = behind /\ native' = native
    BY <1>5 DEF GotoNativeHome, setup
  <2>2. refused = FALSE
    <3>1. refused' = refused \/ refused' = (refused \/ home # None)
      BY <1>5 DEF GotoNativeHome
    <3> QED BY <1>0, <3>1, Zenon
  <2>3. \A d \in Caller : pc'[d] \in {"set_lookup", "set_preset", "goto_preset"} => pc'[d] = pc[d]
    BY <1>5, <1>0 DEF GotoNativeHome, Go, Return
  <2> QED BY <1>2, <2>1, <2>2, <2>3
<1>6. ASSUME NEW c \in Caller, NativeRefused(c) PROVE (native => NativeHome)' /\ (~native => PresetHome)'
  <2>1. /\ home' = home /\ presets' = presets /\ expected' = expected
        /\ behind' = behind /\ native' = native
    BY <1>6 DEF NativeRefused, setup, camera
  <2>2. refused = FALSE /\ native = FALSE
    <3>1. refused' = (refused \/ native)
      BY <1>6 DEF NativeRefused
    <3> QED BY <1>0, <3>1, Zenon
  <2> QED BY <1>2, <2>1, <2>2
<1>7. ASSUME NEW c \in Caller, Lookup(c) PROVE (native => NativeHome)' /\ (~native => PresetHome)'
  <2>1. /\ home' = home /\ presets' = presets /\ expected' = expected /\ refused' = refused
        /\ behind' = behind /\ native' = native
    BY <1>7 DEF Lookup, setup, camera, history
  <2>2. refused = FALSE
    BY <1>0, <2>1
  <2>3. ASSUME native PROVE pc'[c] = "idle" /\ \A d \in Caller \ {c} : pc'[d] = pc[d]
    <3>1. presets = <<>> /\ pc[c] # "set_lookup"
      BY <1>1, <2>1, <2>2, <2>3 DEF NativeHome
    <3>2. NamedPreset = 0
      BY <1>0, <3>1, NamedFacts
    <3> QED BY <1>7, <1>0, <3>1, <3>2 DEF Lookup, Return
  <2> QED BY <1>2, <2>1, <2>2, <2>3
<1>8. ASSUME NEW c \in Caller, SetPreset(c) PROVE (native => NativeHome)' /\ (~native => PresetHome)'
  <2>1. /\ refused' = refused /\ behind' = behind /\ native' = native /\ pc[c] = "set_preset"
        /\ Stored(TRUE) \/ Stored(FALSE)
    BY <1>8 DEF SetPreset, setup
  <2>2. refused = FALSE
    BY <1>0, <2>1
  <2>3. ~native
    BY <1>1, <2>1, <2>2 DEF NativeHome
  <2>4. pos \in expected'
    BY <2>1 DEF Stored
  <2>5. Len(presets') <= 1
    BY <2>1 DEF PresetReused
  <2> QED BY <1>8, <2>1, <2>3, <2>4, <2>5, OnePreset DEF PresetHome
<1>9. CASE Drift \/ UNCHANGED vars
  <2>1. /\ behind' = behind /\ native' = native /\ refused' = refused /\ pc' = pc
        /\ presets' = presets /\ home' = home /\ expected' = expected
    BY <1>9 DEF Drift, vars, setup, camera, command, history
  <2>2. refused = FALSE
    BY <1>0, <2>1
  <2> QED BY <1>2, <2>1, <2>2
<1> QED BY <1>3, <1>4, <1>5, <1>6, <1>7, <1>8, <1>9 DEF Next, CallerStep

(* A command has no answer before it ends.                                 *)
Unanswered == \A c \in Caller : pc[c] # "idle" => answer[c] = "none"

LEMMA UnansweredNext == TypeInv /\ Unanswered /\ [Next]_vars => Unanswered'
<1> SUFFICES ASSUME TypeInv, Unanswered, [Next]_vars PROVE Unanswered'
  OBVIOUS
<1>0. /\ pc \in [Caller -> {"idle"} \cup Begins \cup MovePc \cup HomePc]
      /\ answer \in [Caller -> {"none", "ok", "error"}]
  BY DEF TypeInv, TypeOK
<1>1. ASSUME NEW c \in Caller, NEW n, pc[c] # "idle", Go(c, n) PROVE Unanswered'
  BY <1>0, <1>1 DEF Go, Unanswered
<1>2. ASSUME NEW c \in Caller, NEW a, Return(c, a) PROVE Unanswered'
  BY <1>0, <1>2 DEF Return, Unanswered
<1>3. ASSUME NEW c \in Caller, CallerStep(c) PROVE Unanswered'
  <2>1. CASE Start(c)
    BY <2>1, <1>0 DEF Start, Unanswered
  <2>2. CASE Discover(c)
    BY <2>2, <1>1, <1>2 DEF Discover, Begins
  <2>3. CASE StartMove(c) \/ MoveRefused(c) \/ Pause(c) \/ Stop(c)
    BY <2>3, <1>1, <1>2 DEF StartMove, MoveRefused, Pause, Stop
  <2>4. CASE SetNativeHome(c) \/ GotoNativeHome(c) \/ NativeRefused(c)
    BY <2>4, <1>1, <1>2 DEF SetNativeHome, GotoNativeHome, NativeRefused
  <2>5. CASE Lookup(c)
    BY <2>5, <1>0, <1>2 DEF Lookup, Unanswered
  <2>6. CASE SetPreset(c) \/ GotoPreset(c) \/ PresetRefused(c) \/ Die(c)
    BY <2>6, <1>2 DEF SetPreset, GotoPreset, PresetRefused, Die
  <2> QED BY <1>3, <2>1, <2>2, <2>3, <2>4, <2>5, <2>6 DEF CallerStep
<1>4. CASE Drift \/ UNCHANGED vars
  BY <1>4 DEF Drift, vars, command, Unanswered
<1> QED BY <1>3, <1>4 DEF Next

(* GotoHome that succeeds ends where the user has put the home position,   *)
(* though it may be a preset that SetHome fell back to and whatever calls  *)
(* failed before.                                                          *)
THEOREM HomeIsKept == Spec => HomeIsWhereSet
<1>1. Init => HomeInv
  BY EmptySeq DEF Init, HomeInv, NativeHome, PresetHome
<1>2. Init => PresetInv
  BY DEF Init, PresetInv, Alone
<1>3. TypeInv /\ HomeInv /\ Unanswered /\ [Next]_vars =>
        [\A c \in Caller :
           /\ behind /\ ~refused'
           /\ pc[c] \in {"goto_home", "goto_preset"} /\ answer'[c] = "ok"
           => pos' \in expected]_vars
  <2> SUFFICES ASSUME TypeInv, HomeInv, Unanswered, Next, NEW c \in Caller, behind, ~refused',
                      pc[c] \in {"goto_home", "goto_preset"}, answer'[c] = "ok"
               PROVE  pos' \in expected
    OBVIOUS
  <2>0. /\ answer \in [Caller -> {"none", "ok", "error"}] /\ answer[c] = "none"
        /\ pc \in [Caller -> {"idle"} \cup Begins \cup MovePc \cup HomePc]
        /\ native \in BOOLEAN
    BY DEF TypeInv, TypeOK, Unanswered
  <2>1. ASSUME NEW d \in Caller, NEW a, Return(d, a) PROVE d = c /\ a = "ok"
    BY <2>0, <2>1 DEF Return
  <2>2. ASSUME UNCHANGED answer PROVE FALSE
    BY <2>0, <2>2
  <2>3. ASSUME NEW d \in Caller, CallerStep(d) PROVE GotoNativeHome(c) \/ GotoPreset(c)
    <3>1. CASE Start(d)
      BY <3>1, <2>0 DEF Start
    <3>2. CASE Discover(d) \/ StartMove(d) \/ MoveRefused(d) \/ Pause(d) \/ Stop(d)
      BY <3>2, <2>1, <2>2 DEF Discover, StartMove, MoveRefused, Pause, Stop, Go, Begins
    <3>3. CASE SetNativeHome(d) \/ NativeRefused(d) \/ Lookup(d) \/ SetPreset(d)
      BY <3>3, <2>1, <2>2 DEF SetNativeHome, NativeRefused, Lookup, SetPreset, Go
    <3>4. CASE PresetRefused(d) \/ Die(d)
      BY <3>4, <2>1 DEF PresetRefused, Die
    <3>5. CASE GotoNativeHome(d) \/ GotoPreset(d)
      BY <3>5, <2>1, <2>2 DEF GotoNativeHome, GotoPreset, Go
    <3> QED BY <2>3, <3>1, <3>2, <3>3, <3>4, <3>5 DEF CallerStep
  <2>4. CASE GotoNativeHome(c)
    <3>1. native /\ home # None /\ refused' = refused /\ pos' = home
      BY <2>4, <2>2 DEF GotoNativeHome, Go, Turn
    <3> QED BY <3>1 DEF HomeInv, NativeHome
  <2>5. CASE GotoPreset(c)
    <3>1. pc[c] = "goto_preset" /\ refused' = refused /\ pos' = presets[token[c]]
      BY <2>5 DEF GotoPreset, Turn
    <3>2. token[c] \in 1..Len(presets)
      BY <3>1, LenProperties DEF TypeInv, TypeOK
    <3>3. PresetHome
      BY <3>1, <2>0 DEF HomeInv, NativeHome
    <3> QED BY <3>1, <3>2, <3>3 DEF PresetHome
  <2>6. CASE Drift
    BY <2>6, <2>2 DEF Drift, command
  <2> QED BY <2>3, <2>4, <2>5, <2>6 DEF Next
<1>4. Init => Unanswered
  BY DEF Init, Unanswered
<1> QED BY <1>1, <1>2, <1>3, <1>4, HomeNext, UnansweredNext, PresetNext, PresetsAreReused, TypeAlways, PTL DEF Spec, HomeIsWhereSet
===============================================================================
