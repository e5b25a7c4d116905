------------------------------ MODULE MCChannel ------------------------------
(***************************************************************************)
(* Instances of the channel for TLC.                                       *)
(***************************************************************************)
EXTENDS ChannelRefinement

\* Bodies of two lengths.  Their bytes look like a header when they are parsed
\* from a wrong position, and include END_TAG.
MixedBodies == {<<9>>, <<0, 0, 9>>}

\* One body less than half of a buffer of 12, one of half of it, one of more.
HalfBodies == {<<9>>, <<0, 0, 9>>, <<0, 0, 9, 9>>}

\* A segment that was just created and zeroed.
Fresh == {<<0, 0>>}

\* Segments that a build with a longer buffer left behind: an index outside
\* the buffer of this build, or both inside it, at bytes that are no package.
Foreign == {<<14, 2>>, <<2, 14>>, <<15, 15>>, <<9, 4>>, <<4, 9>>}
FreshOrForeign == Fresh \cup Foreign
=============================================================================
