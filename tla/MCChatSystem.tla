---------------------------- MODULE MCChatSystem ----------------------------
(* Small instances of ChatSystem.                                           *)
EXTENDS ChatSystem

SE == INSTANCE SequencesExt

\* The first user is allocated behind the second.
MCAddress == [u \in 1..MaxUserId |-> -u]

\* What is seen after some news is what looking at one after another shows.
ASSUME SeenStepwise ==
  \A u \in Users, s \in SUBSET Users, box \in SE!BoundedSeq(Talk!News, 3) :
    Talk!Seen(u, s, box) = SE!FoldLeft(LAMBDA t, e : Talk!After(u, t, e), s, box)
=============================================================================
