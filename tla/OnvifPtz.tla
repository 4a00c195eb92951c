------------------------------ MODULE OnvifPtz ------------------------------
(***************************************************************************)
(* PTZ commands at a camera: Move, SetHome and GotoHome                    *)
(* (internal/onvif/ptz.go) as executePTZ calls them, for the agent's loop  *)
(* (cmd/agent/main.go) and for a camera that the cloud reaches directly    *)
(* (internal/cloud/ptz_handlers.go).                                       *)
(*                                                                         *)
(* The camera is external: it moves until it is told to stop, keeps one    *)
(* native home position if it has that optional operation, and keeps       *)
(* presets. A SOAP call is carried out and answered, carried out with its  *)
(* answer lost, or not carried out (refused, unreachable, or the context   *)
(* is over); in the last two cases call returns an error.                  *)
(***************************************************************************)
EXTENDS Naturals, Sequences, FiniteSets

CONSTANTS Caller,    \* commands that may run at once
          Axis,      \* PanTilt and Zoom
          Position,
          None

ASSUME CallerAssumption   == IsFiniteSet(Caller)
ASSUME PositionAssumption == None \notin Position

VARIABLES
  behind,   \* the camera is behind an agent, whose loop runs one command at a time
  native,   \* the camera has the optional home operations
  moving,   \* axes in motion
  pos,      \* where the camera looks
  home,     \* its native home position
  presets,  \* positions of its presets named homePresetName, in their order
  pc,       \* next call of a caller, idle without a command
  axes,     \* axes of its movement
  token,    \* the preset it found, 0 for none
  answer,   \* what its last command returned
  left,     \* axes a command that failed or died has left without Stop (history)
  expected, \* positions that the user may take for the home position (history)
  refused   \* a native home operation of this camera has failed (history)

setup     == <<behind, native>>
camera    == <<moving, pos, home, presets>>
command   == <<pc, axes, token, answer>>
history   == <<left, expected, refused>>
vars      == <<setup, camera, command, history>>

MovePc  == {"move", "pause", "stop"}
HomePc  == {"set_home", "goto_home", "set_lookup", "goto_lookup", "set_preset", "goto_preset"}
Begins  == {"discover_move", "discover_set", "discover_goto"}

TypeOK ==
  /\ behind   \in BOOLEAN /\ native \in BOOLEAN
  /\ moving   \subseteq Axis
  /\ pos      \in Position /\ home \in Position \cup {None}
  /\ presets  \in Seq(Position)
  /\ pc       \in [Caller -> {"idle"} \cup Begins \cup MovePc \cup HomePc]
  /\ axes     \in [Caller -> SUBSET Axis]
  /\ token    \in [Caller -> 0..Len(presets)]
  /\ answer   \in [Caller -> {"none", "ok", "error"}]
  /\ left     \subseteq Axis
  /\ expected \subseteq Position
  /\ refused  \in BOOLEAN

Init ==
  /\ behind  \in BOOLEAN /\ native \in BOOLEAN
  /\ moving = {} /\ pos \in Position /\ home = None /\ presets = <<>>
  /\ pc     = [c \in Caller |-> "idle"]
  /\ axes   = [c \in Caller |-> {}]
  /\ token  = [c \in Caller |-> 0]
  /\ answer = [c \in Caller |-> "none"]
  /\ left = {} /\ expected = {} /\ refused = FALSE

----------------------------------------------------------------------------
(* Calls                                                                   *)

Go(c, next) == /\ pc' = [pc EXCEPT ![c] = next]
               /\ UNCHANGED <<axes, token, answer>>

Return(c, a) == /\ pc'     = [pc EXCEPT ![c] = "idle"]
                /\ axes'   = [axes EXCEPT ![c] = {}]
                /\ token'  = [token EXCEPT ![c] = 0]
                /\ answer' = [answer EXCEPT ![c] = a]

(* executePTZ: behind an agent one command after the other, in the cloud   *)
(* one per request. A movement without an axis is refused before.          *)
Start(c) ==
  /\ pc[c] = "idle"
  /\ behind => \A d \in Caller : pc[d] = "idle"
  /\ \E b \in Begins, A \in SUBSET Axis :
       /\ (b = "discover_move") = (A # {})
       /\ pc'   = [pc EXCEPT ![c] = b]
       /\ axes' = [axes EXCEPT ![c] = A]
  /\ answer' = [answer EXCEPT ![c] = "none"]
  /\ UNCHANGED <<setup, camera, token, history>>

FirstCall(b) == CASE b = "discover_move" -> "move"
                  [] b = "discover_set"  -> "set_home"
                  [] b = "discover_goto" -> "goto_home"

(* discover: GetCapabilities and GetProfiles leave the camera as it is.    *)
Discover(c) ==
  /\ pc[c] \in Begins
  /\ \/ Go(c, FirstCall(pc[c]))
     \/ Return(c, "error")
  /\ UNCHANGED <<setup, camera, history>>

----------------------------------------------------------------------------
(* Move                                                                    *)

(* The axes a command leaves in motion when it ends without a Stop.        *)
Leaves(c) == left' = left \cup axes[c]

StartMove(c) ==
  /\ pc[c] = "move"
  /\ moving' = moving \cup axes[c]
  /\ \/ Go(c, "pause") /\ UNCHANGED left
     \/ Return(c, "error") /\ Leaves(c)
  /\ UNCHANGED <<setup, pos, home, presets, expected, refused>>

MoveRefused(c) ==
  /\ pc[c] = "move"
  /\ Return(c, "error")
  /\ UNCHANGED <<setup, camera, history>>

(* The 350 ms pass, or the context ends first and Move returns its error.  *)
Pause(c) ==
  /\ pc[c] = "pause"
  /\ \/ Go(c, "stop") /\ UNCHANGED left
     \/ Return(c, "error") /\ Leaves(c)
  /\ UNCHANGED <<setup, camera, expected, refused>>

StopOneAxis(c) == axes[c] \ {CHOOSE a \in Axis : TRUE}   \* mutant: an axis is forgotten

(* The axes a Stop names.                                                  *)
StopAxes(c) == axes[c]

Stop(c) ==
  /\ pc[c] = "stop"
  /\ \/ /\ moving' = moving \ StopAxes(c)
        /\ left'   = left \ StopAxes(c)
        /\ Return(c, "ok") \/ Return(c, "error")
     \/ /\ Return(c, "error") /\ Leaves(c)
        /\ UNCHANGED moving
  /\ UNCHANGED <<setup, pos, home, presets, expected, refused>>

----------------------------------------------------------------------------
(* SetHome and GotoHome                                                    *)

(* The camera stores where it looks. Without an answer the user does not   *)
(* know which of the two positions is the home position now.               *)
Stored(known) == expected' = IF known THEN {pos} ELSE expected \cup {pos}

SetNativeHome(c) ==
  /\ pc[c] = "set_home" /\ native
  /\ home' = pos
  /\ \/ Return(c, "ok") /\ Stored(TRUE) /\ UNCHANGED refused
     \/ Go(c, "set_lookup") /\ Stored(FALSE) /\ refused' = TRUE
  /\ UNCHANGED <<setup, moving, pos, presets, left>>

(* An absolute movement ends the continuous one.                           *)
Turn(p) == pos' = p /\ moving' = {} /\ left' = {}

GotoNativeHome(c) ==
  /\ pc[c] = "goto_home" /\ native
  /\ IF home # None THEN Turn(home) ELSE UNCHANGED <<pos, moving, left>>
  /\ \/ home # None /\ Return(c, "ok") /\ UNCHANGED refused
     \/ Go(c, "goto_lookup") /\ refused' = (refused \/ home # None)
  /\ UNCHANGED <<setup, home, presets, expected>>

(* Any error of the native operation leads to the named preset.            *)
NativeRefused(c) ==
  /\ \/ pc[c] = "set_home"  /\ Go(c, "set_lookup")
     \/ pc[c] = "goto_home" /\ Go(c, "goto_lookup")
  /\ refused' = (refused \/ native)
  /\ UNCHANGED <<setup, camera, left, expected>>

NoPresetFound == 0   \* mutant: the name the camera reports is not recognised

(* namedPresetToken: the first preset of that name.                        *)
NamedPreset == IF presets = <<>> THEN 0 ELSE 1

(* GetPresets, which leaves the camera as it is.                           *)
Lookup(c) ==
  /\ pc[c] \in {"set_lookup", "goto_lookup"}
  /\ \/ /\ pc[c] = "set_lookup" \/ NamedPreset # 0
        /\ pc'    = [pc EXCEPT ![c] = IF @ = "set_lookup" THEN "set_preset" ELSE "goto_preset"]
        /\ token' = [token EXCEPT ![c] = NamedPreset]
        /\ UNCHANGED <<axes, answer>>
     \/ Return(c, "error")
  /\ UNCHANGED <<setup, camera, history>>

SavedAnew(k) == Append(presets, pos)   \* mutant: the token is not sent

(* With a token SetPreset moves that preset, without one it makes another. *)
Saved(k) == IF k = 0 THEN Append(presets, pos) ELSE [presets EXCEPT ![k] = pos]

SetPreset(c) ==
  /\ pc[c] = "set_preset"
  /\ presets' = Saved(token[c])
  /\ \/ Return(c, "ok") /\ Stored(TRUE)
     \/ Return(c, "error") /\ Stored(FALSE)
  /\ UNCHANGED <<setup, moving, pos, home, left, refused>>

GotoPreset(c) ==
  /\ pc[c] = "goto_preset"
  /\ Turn(presets[token[c]])
  /\ Return(c, "ok") \/ Return(c, "error")
  /\ UNCHANGED <<setup, home, presets, expected, refused>>

PresetRefused(c) ==
  /\ pc[c] \in {"set_preset", "goto_preset"}
  /\ Return(c, "error")
  /\ UNCHANGED <<setup, camera, history>>

----------------------------------------------------------------------------
(* The process dies: nobody stops the camera and nobody answers.           *)
Die(c) ==
  /\ pc[c] # "idle"
  /\ Return(c, "none")
  /\ IF pc[c] \in {"pause", "stop"} THEN Leaves(c) ELSE UNCHANGED left
  /\ UNCHANGED <<setup, camera, expected, refused>>

(* While an axis moves the camera looks elsewhere.                         *)
Drift == /\ moving # {}
         /\ \E p \in Position \ {pos} : pos' = p
         /\ UNCHANGED <<setup, moving, home, presets, command, history>>

CallerStep(c) ==
  \/ Start(c) \/ Discover(c)
  \/ StartMove(c) \/ MoveRefused(c) \/ Pause(c) \/ Stop(c)
  \/ SetNativeHome(c) \/ GotoNativeHome(c) \/ NativeRefused(c)
  \/ Lookup(c) \/ SetPreset(c) \/ GotoPreset(c) \/ PresetRefused(c)
  \/ Die(c)

Next == Drift \/ \E c \in Caller : CallerStep(c)

Spec == Init /\ [][Next]_vars

----------------------------------------------------------------------------
(* Properties                                                              *)

(* "always stop it explicitly below" (ptz.go:98): an axis is in motion     *)
(* only while a command is between its ContinuousMove and its Stop, or     *)
(* after a command that did not succeed. So a success means that the       *)
(* movement has ended, whatever other commands do to the same axes.        *)
MovesAreAccounted ==
  moving \subseteq left \cup UNION {axes[c] : c \in {d \in Caller : pc[d] \in {"pause", "stop"}}}

(* "A named preset provides the same stable user-facing behaviour"         *)
(* (ptz.go:136): behind an agent, GotoHome turns to where the last         *)
(* SetHome was acknowledged, or to where one was left without an answer,   *)
(* also for a camera that has no native home and whatever calls fail. For  *)
(* a camera that has one this is so as long as the native call works.      *)
HomeIsWhereSet ==
  [][\A c \in Caller :
       /\ behind /\ ~refused'
       /\ pc[c] \in {"goto_home", "goto_preset"} /\ answer'[c] = "ok"
       => pos' \in expected]_vars

(* namedPresetToken: Set Home uses its one preset again, and a camera's    *)
(* few presets are not used up. Only requests that overlap, at a camera    *)
(* without an agent, make more than one.                                   *)
PresetReused == Len(presets) <= IF behind THEN 1 ELSE Cardinality(Caller)
==============================================================================
