---------------------------- MODULE ArtifactScan ----------------------------
(* The scan of the files a quality command has built (p1a_artifacts.rs): it *)
(* walks a target directory and the members of the archives and ZIP files   *)
(* it finds there, and refuses the first one that has to do with Python, an *)
(* accelerator or a native ML library.                                      *)
(*                                                                          *)
(* An artifact is a record:                                                 *)
(*   name      "plain"; "forbidden", a path with a forbidden component;     *)
(*             "parser", a path that has such a component and is one of the *)
(*             exact names the tree-sitter parsers build; "metadata",       *)
(*             lib.rmeta; "table", a symbol index or a long-name table of   *)
(*             an archive;                                                  *)
(*   suffix    the format its extension claims, or "none";                  *)
(*   kind      the format of its bytes: "archive", "coff", "pe", "zip",     *)
(*             "text";                                                      *)
(*   evidence  what there is to find in its own bytes: "none"; "payload", a *)
(*             signature in the part that is searched; "reference", an      *)
(*             import, a section or a symbol; "hidden", a payload behind    *)
(*             what is searched (past 64 KiB of an opaque file, after the   *)
(*             last section of an image);                                   *)
(*   packed    a member of a ZIP file that is compressed;                   *)
(*   members   of an archive or a ZIP file, innermost first no further.     *)
EXTENDS Naturals, Sequences, FiniteSets

Reachable(a) == a.evidence \in {"payload", "reference"}

(* require_no_forbidden_magic: the signatures at the front of a file, and   *)
(* the provider payloads in it, whatever it is named.                       *)
MagicAllows(a) == a.evidence # "payload"

(* validate_coff: sections by name and by content, and symbols; the         *)
(* anonymous form of an import library by the library it names.             *)
CoffAllows(a) == a.kind = "coff" /\ ~Reachable(a)

(* parse_pe_imports and the test of the names: the header must be one, and  *)
(* sections, imports and delayed imports are read.                          *)
PeAllows(a) == a.kind = "pe" /\ ~Reachable(a)

(* inspect_archive_payload of a member that is not an archive.  A ZIP file  *)
(* in an archive is opaque; the compiler's metadata is only searched for    *)
(* signatures.                                                              *)
OpaqueMember(m) ==
    IF m.name = "metadata" \/ ~(m.kind \in {"coff", "pe"} \/ m.suffix = "coff")
    THEN MagicAllows(m)
    ELSE IF m.kind = "coff" \/ m.suffix = "coff" THEN CoffAllows(m) ELSE PeAllows(m)

(* A member's path is refused, unless it is one of the parsers' own objects *)
(* in an archive that the parsers' build names.                             *)
MemberName(m, parser) == m.name # "forbidden" /\ (m.name = "parser" => parser)

Members(a) == {a.members[i] : i \in DOMAIN a.members}

(* inspect_archive_bytes: every member but the tables; an archive in an     *)
(* archive inherits the exception of the parsers, and three deep is refused.*)
ArchiveWith(a, parser, Nested(_, _)) ==
    /\ a.kind = "archive"
    /\ \A m \in Members(a) :
          m.name # "table" =>
              /\ MemberName(m, parser)
              /\ IF m.kind = "archive" THEN Nested(m, parser) ELSE OpaqueMember(m)
ThreeDeep(a, parser) == FALSE
TwoDeep(a, parser) == ArchiveWith(a, parser, ThreeDeep)
OneDeep(a, parser) == ArchiveWith(a, parser, TwoDeep)
ArchiveAllows(a, parser) == ArchiveWith(a, parser, OneDeep)

(* inspect_zip_bytes: a member that is compressed cannot be inspected and   *)
(* is refused; the others are by what their bytes are, and a ZIP file among *)
(* them is opaque.                                                          *)
ZipAllows(a) ==
    /\ a.kind = "zip"
    /\ \A m \in Members(a) :
          /\ MemberName(m, FALSE) /\ ~m.packed
          /\ MagicAllows(m)
          /\ m.kind = "archive" => ArchiveAllows(m, FALSE)
          /\ m.kind = "coff" => CoffAllows(m)
          /\ m.kind = "pe" => PeAllows(m)

(* One file of a target: its path, its first bytes, and then the parser     *)
(* that its name or its bytes ask for, in this order of precedence.         *)
FileAllows(a) ==
    LET is(format) == a.suffix = format \/ a.kind = format
    IN  /\ a.name # "forbidden" /\ MagicAllows(a)
        /\ IF is("pe") THEN PeAllows(a)
           ELSE IF is("archive") THEN ArchiveAllows(a, a.name = "parser")
           ELSE IF is("coff") THEN CoffAllows(a)
           ELSE is("zip") => ZipAllows(a)

(* scan_target: only the formatter may leave its target empty.              *)
ScanTarget(command, files) ==
    /\ command # "fmt" => files # {}
    /\ \A a \in files : FileAllows(a)
-----------------------------------------------------------------------------
(* What a format has room for: an archive is its members, only these two    *)
(* formats import or define anything, and only these two hold files.        *)
Formatted(a) ==
    /\ a.kind = "archive" => a.evidence = "none"
    /\ a.evidence = "reference" => a.kind \in {"coff", "pe"} \/ a.name \in {"metadata", "table"}
    /\ a.kind \notin {"archive", "zip"} => Members(a) = {}

(* What the scan is to exclude, stated on the nesting alone: the artifacts  *)
(* that can be reached from a file are its members and theirs, except what  *)
(* is inside a table or inside a ZIP file that is not a file of the target  *)
(* itself.  Five levels are looked at, one more than a scanned file can have*)
(* when it is accepted.                                                     *)
Held(a, outermost) ==
    IF a.name = "table" \/ (a.kind = "zip" /\ ~outermost) THEN {} ELSE Members(a)
Inside(artifacts) == UNION {Held(a, FALSE) : a \in artifacts}
Within(a) ==
    LET one == Held(a, TRUE)
        two == Inside(one)
        three == Inside(two)
        four == Inside(three)
    IN  {a} \cup one \cup two \cup three \cup four \cup Inside(four)

(* A target is clean when nothing that can be reached has a forbidden name  *)
(* or evidence in sight; lib.rmeta and the tables only name things.         *)
Harmless(m) ==
    /\ m.name # "forbidden"
    /\ m.name = "metadata" => m.evidence # "payload"
    /\ m.name \notin {"metadata", "table"} => ~Reachable(m)
Clean(files) == \A a \in files : \A m \in Within(a) : Harmless(m)
=============================================================================
