------------------------------ MODULE MCReader ------------------------------
EXTENDS Reader, TLC

\* No activity but those named.
Only(f) == [a \in Acts |-> IF a \in DOMAIN f THEN f[a] ELSE 0]

\* Keys come and go on every kind of device, with failures, deaths and
\* starts that choose another keystore.
Custody(f, mine, devs, starts) ==
    [acts |-> Only(f), devices |-> devs, starts |-> starts, mine |-> mine,
     msgs |-> {"armored"}, signers |-> {Pal}]
\* Mail is read and searched for while keys arrive.
Reading(f, msgs) == [acts |-> Only(f), devices |-> {"link"}, starts |-> {"file"}, mine |-> {"none"},
                     msgs |-> msgs, signers |-> Fps]
\* Mail is written while lookups run.
Writing(f, mine) == [acts |-> Only(f), devices |-> {"link"}, starts |-> {"file"}, mine |-> mine,
                     msgs |-> {"opened"}, signers |-> {Pal}]

MCPlans == {
    Custody([private |-> 1, public |-> 1, delete |-> 1], {"none"}, {"link"}, {"file"}),
    Custody([public |-> 1, delete |-> 1, death |-> 1], {"legacy"}, {"excl"}, {"file"}),
    Custody([private |-> 1, delete |-> 1, trouble |-> 1, death |-> 1],
            {"none", "legacy"}, {"link"}, {"file"}),
    Custody([private |-> 1, cred |-> 2, trouble |-> 1, death |-> 1],
            {"none"}, {"link", "hardware"}, {"file", "hardware"}),
    Custody([private |-> 1, delete |-> 1, probe |-> 2], {"none", "legacy"}, {"hardware"}, Providers),
    Custody([cred |-> 2, probe |-> 2], {"legacy"}, {"hardware"}, Providers),
    Custody([own |-> 2, delete |-> 1, trouble |-> 1], {"none"}, {"excl"}, {"file"}),
    Custody([own |-> 2, trouble |-> 1, probe |-> 1], {"none"}, {"hardware"}, {"hardware"}),
    Reading([private |-> 1, public |-> 1, thread |-> 1], {"armored"}),
    Reading([private |-> 1, thread |-> 1, trouble |-> 1], {"armored", "junk"}),
    Reading([thread |-> 1, search |-> 3, trouble |-> 1], {"armored"}),
    Writing([draft |-> 1, toggle |-> 3, trouble |-> 1], {"none"}),
    Writing([public |-> 1, draft |-> 1, toggle |-> 1], {"none"}),
    Writing([draft |-> 2, toggle |-> 2], {"legacy"}),
    Writing([draft |-> 1, toggle |-> 1, sweep |-> 1, death |-> 1], {"none"})}
=============================================================================
