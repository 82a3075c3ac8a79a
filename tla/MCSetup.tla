------------------------------ MODULE MCSetup ------------------------------
(* A small instance of Setup for TLC. *)
EXTENDS Setup

CONSTANTS dev, own, unknown, etc, custom, default_calib, alpha

MCOrder == <<Default>>
MCDefaults == [k \in CfgKeys |-> IF k = alpha THEN 2 ELSE Automatic]
MCKeyOrder == <<default_calib, alpha>>

\* At first there is nothing, or a calibration for everybody in /etc and a v1 file in
\* the person's home, whose number is a string.
MCContent(c, a) == [k \in CfgKeys |-> IF k = alpha THEN a ELSE c]
MCOnly(place, f) == [p \in {Sys} \cup Homes |-> IF p = place THEN f ELSE NoFile]
MCFirstConfigs ==
    { <<MCOnly(Sys, NoFile), MCOnly(User, NoFile)>>,
      <<MCOnly(Sys, MCContent(etc, NotGiven)), MCOnly(User, MCContent(own, etc))>> }

\* Two uses.  The machine: everything but commands that change the configuration, which
\* the wizard saves without failing.  The configuration: such commands, before, during
\* and after runs of the wizard that meet no daemon and no trouble.
VARIABLE use
MCVars == <<setupVars, use>>

InMachine == UNCHANGED v1 /\ (UNCHANGED <<toml, saved>> \/ (pc = "save" /\ "saved" \in said'))
InConfig == UNCHANGED <<on, node, opened>> /\ ~up' /\ pc' # "failed" /\ uniq = "none"

MCInit ==
    /\ SetupInit
    /\ use \in {"machine", "config"}
    /\ use = "machine" => toml[Sys] = NoFile
MCNext ==
    /\ SetupNext
    /\ use = "machine" => InMachine
    /\ use = "config" => InConfig
    /\ UNCHANGED use
MCSpec == MCInit /\ [][MCNext]_MCVars
=============================================================================
