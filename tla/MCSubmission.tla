---------------------------- MODULE MCSubmission ----------------------------
(***************************************************************************)
(* A small instance of Submission.  The games are the lists that matter to *)
(* the validators: an empty one, a blank, one name twice, once padded, two *)
(* names, and the same two the other way round with one repeated.  Two     *)
(* games on two platforms are over the cap of two.                         *)
(***************************************************************************)
EXTENDS Submission, TLC

Plain(name) == [name |-> name, pad |-> 0]
Padded(name) == [name |-> name, pad |-> 1]

MCGames ==
    {<< >>, <<Padded(Blank)>>, <<Plain("A"), Padded("A")>>,
     <<Plain("A"), Plain("B")>>, <<Padded("B"), Plain("A"), Plain("B")>>}
MCRegions == {<<Plain("EU")>>}
MCPlatforms == {<<Plain("iOS")>>, <<Plain("iOS"), Plain("tv")>>}

MCRaw == [games : MCGames, regions : MCRegions, platforms : MCPlatforms]
MCName == {Blank, "A", "B", "EU", "iOS", "tv"}

Ids == Permutations(JobId)
=============================================================================
