----------------------------- MODULE MCProgram --------------------------------
EXTENDS Program, TLC

CONSTANTS init, events, reported

MCFiles == <<init, events, reported>>

MCStatements == (init :> 3) @@ (events :> 2) @@ (reported :> 1)
MCRepeatable == {init, events} \X (1..3)

\* The spelling in IPv6 of 0; 1; an address with a zone.  Networks of the first
\* two (with host bits), of one, of the IPv6 spellings, of the rest of IPv6.
MCClients == {Address(6, 4), Address(4, 1), Zoned(1)}
TabClients == {Address(6, 4), Address(4, 1)}
Hours(n) == [form |-> "duration", n |-> n]
Setting == [parses |-> TRUE, levelKnown |-> TRUE, locals |-> <<Entry(4, 1, 1), Blank>>,
            activeDefence |-> TRUE, expiration |-> Hours(48), patternsCompile |-> TRUE,
            abuseIPDB |-> TRUE, failOpen |-> FALSE]
MCSettings ==
  {Setting,
   [Setting EXCEPT !.locals = <<Entry(4, 0, -1), Entry(6, 4, 1), Entry(6, 0, 1)>>,
                   !.activeDefence = FALSE, !.failOpen = TRUE],
   [Setting EXCEPT !.locals = <<Malformed>>],
   [Setting EXCEPT !.patternsCompile = FALSE],
   [Setting EXCEPT !.expiration = [form |-> "other", n |-> 0]]}

\* For the tab the start is of one step each, and nobody is local.
TabFiles == <<init>>
TabStatements == init :> 1
TabSearches == {TabClients, {Address(4, 1)}}
TabSettings == {[Setting EXCEPT !.locals = <<Blank>>]}

\* Nor does the tab meet the status handler, which reads the same table.
TabNext == Beside(Starting \/ Ending \/ ChangeTable) \/ Browse
TabSpec == ProgramInit /\ [][TabNext]_programVars
=============================================================================
