--------------------------- MODULE MCConfigStore ---------------------------
(* Small instances of ConfigStore for TLC. *)
EXTENDS ConfigStore

CONSTANTS a, b, k1, k2, tv, cal

MCOrder == <<Default, tv>>
MCRemaps == {<<k1, k2>>}
MCMap == [NoMap EXCEPT ![k1] = k2]
MCProfile(sens, map) == [ProfileInit EXCEPT !.sens = sens, !.map = map]
MCFile(name, default, other) ==
    [profile |-> name, airmouse |-> TRUE, calib |-> Unset,
     profiles |-> [n \in Names |-> IF n = Default THEN default ELSE other]]

\* The file an administrator starts from.
MCGoodFile == MCFile(Default, Absent, MCProfile(2, MCMap))
MCFirstFiles == {MCGoodFile}

\* That one, none, one that is not TOML, one with a speed that is out of range, and
\* one that names a profile it does not define.
MCEdits ==
    {MCGoodFile, Missing, Broken, MCFile(Default, MCProfile(2, NoMap), MCProfile(4, NoMap)),
     MCFile(tv, MCProfile(2, NoMap), Absent)}
MCStateEdits == {Broken, Missing} \cup {[id \in Ids |-> n] : n \in Names}

\* Two uses.  The clients: every call with every argument, 0 and a NaN among the speeds,
\* to one remote whose files nobody edits.  The person: two remotes, whose files are edited while
\* clients change sensitivities and profiles, but scroll speeds never and to 0 nothing.
VARIABLE use
MCVars == <<vars, use>>

OneClient == edited' = {} /\ (job' # NoJob => job'.id = a)
Ordinary(c) ==
    \A n \in Names : Defined(c, n) =>
        LET p == c.profiles[n]
        IN  p.scroll = Unset /\ p.sens \notin {0, Unset} /\ (n = Default => p.map = NoMap)

MCInit ==
    /\ Init
    /\ use \in {"clients", "person"}
    /\ use = "clients" => file[b] = Missing
MCNext ==
    /\ Next
    /\ use = "clients" => OneClient
    /\ use = "person" => \A id \in Ids : Ordinary(dc'[id])
    /\ UNCHANGED use
MCSpec == MCInit /\ [][MCNext]_MCVars
=============================================================================
