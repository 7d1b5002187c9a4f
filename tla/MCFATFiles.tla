---------------------------- MODULE MCFATFiles ----------------------------
(* Instances of FATFiles for TLC: directories of three or four slots, each a    *)
(* sector of its own, so that clusters 0 and 1 are the last two slots.          *)
EXTENDS FATFiles

File(name, cluster) == Entry("file", name, cluster)
Long == Entry("long", NoName, 0)
Deleted == Entry("deleted", NoName, 0)
Dir == Entry("dir", "d", 3)

\* A name of two long slots in a full directory; an empty file, whose cluster is 0, and
\* a deleted slot, with which the directory becomes full; and a deleted slot right
\* before the end.
MCLayouts == {
    <<Long, Long, File("a", 5)>>,
    <<File("a", 0), Deleted, Dir>>,
    <<Dir, Deleted, Zero>> }
MCTable == <<TRUE, TRUE, FALSE>>
MCJunk == {Zero, Long}
=============================================================================
