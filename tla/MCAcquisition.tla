--------------------------- MODULE MCAcquisition ---------------------------
(***************************************************************************)
(* Acquisition for TLC: two processes, every command, and pairs of jobs on *)
(* one root.  Content 3 occurs in both shards, 4 is in the second with     *)
(* bytes that are not its own; name 0 is manifest.json.                    *)
(***************************************************************************)
EXTENDS Acquisition

MCLengthOf == <<1, 2, 2, 1>>

Row(id, fault, repo) == [id |-> id, fault |-> fault, repo |-> repo, content |-> id]
MCPinnedRows ==
    << <<Row(3, "none", "p"), Row(2, "license", "p"), Row(1, "none", "q")>>,
        <<Row(3, "none", "q"), Row(2, "none", "q"), [Row(4, "none", "p") EXCEPT !.content = 1]>> >>
MCOtherRows == << <<Row(2, "none", "z"), Row(1, "none", "z")>>, <<Row(3, "none", "z")>> >>

File(sort, content, repo) == [sort |-> sort, content |-> content, repo |-> repo]
MCTree == << File("regular", 2, "p"), File("empty", 1, "p"), File("regular", 1, "q") >>
MCOtherTree == << File("link", 2, "p"), File("regular", 3, "p"), File("regular", 4, "q") >>

Basic == [perGeneration |-> 2, maxDocuments |-> 3, maxBytes |-> 4, maxRedirects |-> 1,
           attempts |-> 0, partition |-> 1 .. 4, partitioned |-> FALSE, verified |-> TRUE]
Assets(r, assets) == [kind |-> "assets", root |-> r, assets |-> assets] @@ Basic
Asset(name, content) == [name |-> name, content |-> content]
Blobs(r, shardList, part) ==
    [kind |-> "blobs", root |-> r, shards |-> shardList, partition |-> part,
     partitioned |-> part # 1 .. 4, attempts |-> 1] @@ Basic
Rows(r, shardList, checked) ==
    [kind |-> "rows", root |-> r, shards |-> shardList, verified |-> checked] @@ Basic

MCJobs ==
    << Assets(1, <<Asset(1, 2), Asset(0, 1), Asset(2, 1)>>),
       [kind |-> "discover", assets |-> <<Asset(1, 1)>>, maxBytes |-> 1] @@ Basic,
       Blobs(1, <<1, 2>>, {1, 3}), Blobs(2, <<1>>, {5}),
       Rows(1, <<1, 2>>, FALSE), Rows(2, <<1, 2>>, TRUE),
       [kind |-> "tree", root |-> 2] @@ Basic >>
=============================================================================
