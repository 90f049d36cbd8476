---- MODULE MCAuditedProcess ----
(* Instance of AuditedProcess: a native root, a 32-bit vctip.exe, which may *)
(* survive, a native tool, and a silent console that may get vctip.exe's    *)
(* number.                                                                  *)
EXTENDS AuditedProcess
CONSTANTS root, vctip, tool, conhost, dll

MCPid == [p \in {root, vctip, tool, conhost} |->
            CASE p = root -> 1 [] p = tool -> 3 [] OTHER -> 2]
====
