---------------------------- MODULE InitialConfig ----------------------------
(***************************************************************************)
(* The configuration a host asks for when it opens a session               *)
(* (core/initial-config.ts, core/config-options.ts) and the choice of an   *)
(* authentication method (core/authentication-utils.ts).                   *)
(*                                                                         *)
(* An agent offers options, each with a value and the choices it takes,    *)
(* and modes.  A request is a sequence of candidates: the value the host   *)
(* asks for and then its aliases; the empty sequence asks for nothing.     *)
(***************************************************************************)
EXTENDS Naturals, Sequences, FiniteSets, SequencesExt

CONSTANTS
  Wanted,     \* candidates of every key
  Required,   \* keys that must be set: all if strict, or those marked so
  Modes       \* the agent's modes, in the order it lists them

Keys == <<"mode", "model", "effort">>

ASSUME InitialConfigAssumption ==
  /\ DOMAIN Wanted = ToSet(Keys)
  /\ \A key \in DOMAIN Wanted : Wanted[key] \in Seq(ToSet(Wanted[key]))
  /\ Required \subseteq ToSet(Keys)
  /\ Modes \in Seq(ToSet(Modes))

Accepts(key) == ToSet(Wanted[key])

(* The steps of applyRuntimeInitialConfig: the mode is an option, a mode   *)
(* of the protocol, or both.                                               *)
Steps == <<"mode", "modeId", "model", "effort">>

KeyOf(step) == IF step = "modeId" THEN "mode" ELSE step

IfWanted(step) == IF Wanted[KeyOf(step)] # <<>> THEN <<step>> ELSE <<>>

Work == IfWanted("mode") \o IfWanted("modeId") \o IfWanted("model") \o IfWanted("effort")

-----------------------------------------------------------------------------
(* What the driver knows of the agent: [options, mode], an option being    *)
(* [value, choices].                                                       *)
IsOption(option) == option = [value |-> option.value, choices |-> option.choices]

IsAgent(agent) ==
  /\ agent = [options |-> agent.options, mode |-> agent.mode]
  /\ agent.options = [o \in DOMAIN agent.options |-> agent.options[o]]
  /\ \A o \in DOMAIN agent.options : IsOption(agent.options[o])

(* The first element that is accepted, if any is.                          *)
FirstOf(seq, accepted) ==
  LET i == SelectInSeq(seq, LAMBDA e : e \in accepted)
  IN  IF i = 0 THEN <<>> ELSE <<seq[i]>>

(* findAvailableModeId: the first mode listed that the host accepts.       *)
ModeId == FirstOf(Modes, Accepts("mode"))

(* normalizeFirstSupportedValue: the first candidate the option takes.     *)
Supported(option, key) == FirstOf(Wanted[key], option.choices)

Item(step, status, value) == [step |-> step, status |-> status, value |-> value]
Skipped(step)    == Item(step, "skipped", "none")
AlreadySet(step, value) == Item(step, "already-set", value)
Ask(step, value) == Item(step, "ask", value)

(* applyInitialConfigOption, up to its request.                            *)
DecideOption(known, step) ==
  LET option == known.options[step]
      values == Supported(option, step)
  IN  CASE values = <<>> -> Skipped(step)
        [] values # <<>> /\ option.value = Head(values) ->
             AlreadySet(step, option.value)
        [] OTHER -> Ask(step, Head(values))

(* applyInitialMode leaves one report for the option and one for the mode; *)
(* "silent" stands for none.                                               *)
Decide(known, step) ==
  CASE step = "modeId" ->
         (CASE ModeId = <<>> -> Item(step, "silent", "none")
            [] ModeId # <<>> /\ known.mode = Head(ModeId) ->
                 AlreadySet(step, known.mode)
            [] OTHER -> Ask(step, Head(ModeId)))
    [] step # "modeId" /\ step \notin DOMAIN known.options ->
         IF step = "mode" /\ ModeId # <<>> THEN Item(step, "silent", "none")
         ELSE Skipped(step)
    [] OTHER -> DecideOption(known, step)

Reported(report, item) ==
  IF item.status = "silent" THEN report ELSE Append(report, item)

Succeeded == {"applied", "already-set"}

FailedRequired(report) ==
  \E i \in DOMAIN report :
    report[i].status \notin Succeeded /\ KeyOf(report[i].step) \in Required

-----------------------------------------------------------------------------
(* What a successful request does at the agent.  A value may change one of *)
(* those the host sets after it: the mode, under either of its names, the  *)
(* model or the effort, and the model the effort; never the other way      *)
(* round.  The two names of the mode may follow each other.                *)
Later(step) ==
  LET at == [i \in DOMAIN Keys |-> Keys[i]]
      n  == CHOOSE i \in DOMAIN Keys : Keys[i] = step
  IN  {at[i] : i \in (n + 1)..Len(Keys)}

AllChoices(agent) == UNION {agent.options[o].choices : o \in DOMAIN agent.options}

AfterOption(agent, step, value) ==
  {[options |-> options, mode |-> mode] :
     options \in
       {[o \in DOMAIN agent.options |->
           CASE o = step -> [agent.options[o] EXCEPT !.value = value]
             [] o \in Later(step) /\ o = changed ->
                  [agent.options[o] EXCEPT !.value = v]
             [] OTHER -> agent.options[o]] :
          changed \in DOMAIN agent.options, v \in AllChoices(agent)},
     mode \in {agent.mode}
                \cup (IF step = "mode" THEN {value} \cap ToSet(Modes) ELSE {})}

AfterMode(agent, value) ==
  LET changes == ({"mode"} \X {value}) \cup (Later("mode") \X AllChoices(agent))
  IN  {[options |-> agent.options, mode |-> value]} \cup
      {[options |-> [agent.options EXCEPT ![change[1]].value = change[2]], mode |-> value] :
         change \in {c \in changes : c[1] \in DOMAIN agent.options}}

Effects(agent, step, value) ==
  {after \in IF step = "modeId" THEN AfterMode(agent, value)
                                ELSE AfterOption(agent, step, value) :
     \A o \in DOMAIN after.options :
       \/ after.options[o] = agent.options[o]
       \/ after.options[o].value \in after.options[o].choices}

(* What is in force at the agent, for a step that was reported.            *)
InForce(agent, step) ==
  IF step = "modeId" THEN agent.mode ELSE agent.options[step].value

-----------------------------------------------------------------------------
(* Authentication methods are [type, default].                             *)

(* selectRuntimeAuthenticationMethod: the one marked as default, or the    *)
(* only one.                                                               *)
SelectMethod(methods) ==
  LET marked == SelectSeq(methods, LAMBDA m : m.default)
  IN  CASE marked # <<>> -> <<Head(marked)>>
        [] marked = <<>> /\ Len(methods) = 1 -> methods
        [] OTHER -> <<>>

(* resolveAutomaticAuthenticationSelection: without a host to ask, only a  *)
(* method the agent carries out by itself.                                 *)
AutomaticMethod(methods) ==
  SelectSeq(SelectMethod(methods), LAMBDA m : m.type = "agent")
=============================================================================
