---------------------------- MODULE MC_Compiler ----------------------------
(***************************************************************************)
(* Source trees for Compiler: files a and b, in the top directory or in   *)
(* sub/, as .c, .cpp or .h (which discover_sources skips); sanitizers     *)
(* strings as the fields split(',') cuts them into.                       *)
(***************************************************************************)
EXTENDS Compiler

Files == [dir : {"", "sub"}, stem : {"a", "b"}, ext : {"c", "cpp", "h"}]

(* Every tree of at most three files.                                     *)
MCProjects == {p \in SUBSET Files : Cardinality(p) <= 3}

(* The trees of one C source.                                             *)
MCSingleSourceProjects == {{[dir |-> "", stem |-> "a", ext |-> "c"]}}

Field(w) == [word |-> w]

(* "", "lsan", "asan,", "ubsan, ubsan", "address" (not a known name),    *)
(* "lsan,asan".                                                           *)
MCRequests ==
    {<<Field("")>>, <<Field("lsan")>>, <<Field("asan"), Field("")>>,
     <<Field("ubsan"), Field("ubsan")>>, <<Field("address")>>,
     <<Field("lsan"), Field("asan")>>}

(* Requests that name no sanitizer.                                       *)
MCNoSanitizer == {<<Field("")>>, <<Field("address")>>}

(* Entry points that call run with split=False.                           *)
MCSplitFalseEntries == {"pipeline", "compiler"}

(* The default, "asan".                                                   *)
MCDefaultRequest == {<<Field("asan")>>}

=============================================================================
