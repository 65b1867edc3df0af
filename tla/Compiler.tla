------------------------------ MODULE Compiler ------------------------------
(***************************************************************************)
(* The build steps of DESAN's three entry points: "pipeline" is          *)
(* run_pipeline (pipeline.main), "compiler" is Compiler.main, "run" is a  *)
(* library call of Compiler.run.  Compiler.run: discover the sources,    *)
(* compile them to one bitcode file, either in one clang call or one call *)
(* per source followed by llvm-link, disassemble, optionally verify,      *)
(* compile a binary); run_pipeline then adds the optimized IR, its        *)
(* optional verification and its binary.  The build directory outlives a *)
(* run: the user may edit the project and run the same command again,     *)
(* up to MaxRuns times.  A file's content is its kind, the set of source files *)
(* whose code it holds and the -fsanitize flags its code carries.         *)
(*                                                                         *)
(* Assumed of the toolchain: clang -c with -o and more than one input     *)
(* refuses to run ("cannot specify -o when generating multiple output     *)
(* files"); llvm-link handed the same module twice fails on its           *)
(* duplicate definitions (every source defines an external symbol);       *)
(* linking code instrumented by a sanitizer other than leak without that  *)
(* sanitizer's runtime fails on the undefined __<san>_* symbols, while    *)
(* leak instruments nothing and only loses its runtime.  Every other tool *)
(* call succeeds: the sources compile and opt -verify accepts llvm-dis's  *)
(* output and the rewrite, which keeps every line (see Desan).            *)
(***************************************************************************)
EXTENDS Integers, SequencesExt

CONSTANTS
    Projects,     \* the source trees: sets of [dir, stem, ext]
    SplitModes,   \* the values of Compiler.run's split argument
    CppModes,     \* the values of CompilerConfig.include_cpp
    Requests,     \* the --sanitizers string, cut at its commas
    Entries,      \* the entry points: "pipeline", "compiler", "run"
    MaxRuns       \* how many times the command is run on one build dir

VARIABLES
    entry,        \* the entry point that started the runs
    run,          \* how many runs have been started
    project,      \* the files under project_path
    split,        \* run(split=...)
    includeCpp,   \* config.include_cpp
    sanitizers,   \* the comma-separated fields of the sanitizers string
    verify,       \* run_pipeline(verify=...), handed on to run
    pc,           \* the step that is next
    srcs,         \* discover_sources's c_files + cpp_files
    i,            \* compile_individual's loop cursor
    bcs,          \* compile_individual's bc_files
    fs,           \* the build directory: path -> content
    outcome       \* "running", "ok", or the error that ended the run

vars == <<entry, run, project, split, includeCpp, sanitizers, verify, pc, srcs, i, bcs, fs, outcome>>

CppExts == {"cpp", "cc", "cxx"}

ProgramBc  == <<"build", "program.bc">>
ProgramLl  == <<"build", "program.ll">>
ProgramBin == <<"build", "program">>
OptLl      == <<"build", "program_optimized.ll">>
OptBin     == <<"build", "program_optimized">>

(* CompilerConfig.sanitize_flags's mapping.                              *)
SanFlag == [asan |-> "-fsanitize=address", ubsan |-> "-fsanitize=undefined",
            msan |-> "-fsanitize=memory", tsan |-> "-fsanitize=thread",
            lsan |-> "-fsanitize=leak"]

(* The flags whose code calls into a sanitizer runtime.                  *)
RuntimeFlags == Range(SanFlag) \ {"-fsanitize=leak"}

(* run_pipeline: [s.strip() for s in sanitizers.split(',') if s.strip()] *)
Requested(fields) ==
    SelectSeq([k \in DOMAIN fields |-> fields[k].word], LAMBDA w : w # "")

(* sanitize_flags: known names, each flag once, in the order requested.  *)
SanitizeFlags(names) ==
    FoldLeft(LAMBDA flags, s :
                IF s \in DOMAIN SanFlag /\ SanFlag[s] \notin Range(flags)
                THEN Append(flags, SanFlag[s]) ELSE flags,
             <<>>, names)

(* The -fsanitize part of build_flags.                                   *)
Instrumented == Range(SanitizeFlags(Requested(sanitizers)))

(* The sources of the project that discover_sources returns.             *)
Included == {s \in project : s.ext = "c" \/ (includeCpp /\ s.ext \in CppExts)}

(* A slip: the object named by Path(src).name, "a.c.bc".                 *)
ObjPathByName(src) == <<"objs", src.stem \o "." \o src.ext>>

(* compile_individual: output_dir / f"{Path(src).stem}.bc"               *)
ObjPath(src) == <<"objs", src.stem>>

Write(path, kind, units, sans) ==
    (path :> [kind |-> kind, units |-> units, sans |-> sans]) @@ fs

Fail(err) ==
    /\ outcome' = err
    /\ pc' = "done"

Frozen == <<entry, run, project, split, includeCpp, sanitizers, verify>>

(***************************************************************************)
(* discover_sources: os.walk visits directories and files in an order the *)
(* file system chooses; .c files come first, then the C++ ones.           *)
(***************************************************************************)
Discover ==
    /\ pc = "discover"
    /\ \E cs \in SetToSeqs({s \in Included : s.ext = "c"}),
          xs \in SetToSeqs({s \in Included : s.ext # "c"}) :
          srcs' = cs \o xs
    /\ pc' = IF split THEN "compile" ELSE "bitcode"
    /\ UNCHANGED <<Frozen, i, bcs, fs, outcome>>

(* compile_to_bitcode: one clang call over every source.                 *)
CompileToBitcode ==
    /\ pc = "bitcode"
    /\ CASE srcs = <<>> -> Fail("NoSourcesFound") /\ UNCHANGED fs
         [] Len(srcs) > 1 -> Fail("clang") /\ UNCHANGED fs
         [] OTHER -> /\ fs' = Write(ProgramBc, "bc", Range(srcs), Instrumented)
                     /\ pc' = "text"
                     /\ UNCHANGED outcome
    /\ UNCHANGED <<Frozen, srcs, i, bcs>>

(* compile_individual: one clang call per source.                        *)
CompileIndividual ==
    /\ pc = "compile"
    /\ i <= Len(srcs)
    /\ fs' = Write(ObjPath(srcs[i]), "bc", {srcs[i]}, Instrumented)
    /\ bcs' = Append(bcs, ObjPath(srcs[i]))
    /\ i' = i + 1
    /\ UNCHANGED <<Frozen, pc, srcs, outcome>>

(* A slip: range(1, len(files)) over the inputs.                         *)
LinkedUnitsFromSecond(files) == UNION {fs[files[k]].units : k \in 2..Len(files)}

(* A slip: linking every .bc file found in objs/ instead of bc_files.    *)
LinkedUnitsInDir(files) == UNION {fs[p].units : p \in {q \in DOMAIN fs : q[1] = "objs"}}

LinkedUnits(files) == UNION {fs[files[k]].units : k \in 1..Len(files)}

(* link_bitcode(bc_files, program.bc) with llvm-link.                    *)
LinkBitcode ==
    /\ pc = "compile"
    /\ i > Len(srcs)
    /\ IF bcs = <<>>
       THEN Fail("NoInputsProvided") /\ UNCHANGED fs
       ELSE IF Cardinality(Range(bcs)) < Len(bcs)
       THEN Fail("llvm-link") /\ UNCHANGED fs
       ELSE /\ fs' = Write(ProgramBc, "bc", LinkedUnits(bcs),
                           UNION {fs[b].sans : b \in Range(bcs)})
            /\ pc' = "text"
            /\ UNCHANGED outcome
    /\ UNCHANGED <<Frozen, srcs, i, bcs>>

(* to_text_ir: llvm-dis program.bc -o program.ll                         *)
ToTextIr ==
    /\ pc = "text"
    /\ fs' = Write(ProgramLl, "ll", fs[ProgramBc].units, fs[ProgramBc].sans)
    /\ pc' = IF verify THEN "verify" ELSE "binary"
    /\ UNCHANGED <<Frozen, srcs, i, bcs, outcome>>

(* run, if verify: opt -verify program.ll, which passes.                 *)
VerifyIr ==
    /\ pc = "verify"
    /\ pc' = "binary"
    /\ UNCHANGED <<Frozen, srcs, i, bcs, fs, outcome>>

(***************************************************************************)
(* compile_ir(ir, out) with no link_flags: clang ir -o out links without  *)
(* any sanitizer runtime.                                                 *)
(***************************************************************************)
CompileIrFile(ir, out, next, result) ==
    IF fs[ir].sans \cap RuntimeFlags # {}
    THEN Fail("ld") /\ UNCHANGED fs
    ELSE /\ fs' = Write(out, "bin", fs[ir].units, {})
         /\ pc' = next
         /\ outcome' = result

(* run: compile_ir(ll_file, program), and run returns; only run_pipeline *)
(* goes on.                                                               *)
CompileIr ==
    /\ pc = "binary"
    /\ IF entry = "pipeline"
       THEN CompileIrFile(ProgramLl, ProgramBin, "optimize", outcome)
       ELSE CompileIrFile(ProgramLl, ProgramBin, "done", "ok")
    /\ UNCHANGED <<Frozen, srcs, i, bcs>>

(* run_pipeline: optimize_ir_file(ir_file, program_optimized.ll), whose  *)
(* rewrite keeps every line.                                             *)
Optimize ==
    /\ pc = "optimize"
    /\ fs' = Write(OptLl, "ll", fs[ProgramLl].units, fs[ProgramLl].sans)
    /\ pc' = IF verify THEN "optverify" ELSE "optbinary"
    /\ UNCHANGED <<Frozen, srcs, i, bcs, outcome>>

(* run_pipeline, if verify: analyzer.verify_ir(optimized_ir) is True.    *)
VerifyOptimized ==
    /\ pc = "optverify"
    /\ pc' = "optbinary"
    /\ UNCHANGED <<Frozen, srcs, i, bcs, fs, outcome>>

(* run_pipeline: compile_ir(optimized_ir, optimized_bin), and return.    *)
CompileOptimized ==
    /\ pc = "optbinary"
    /\ CompileIrFile(OptLl, OptBin, "done", "ok")
    /\ UNCHANGED <<Frozen, srcs, i, bcs>>

(* Projects that differ from p by one file added or deleted.            *)
Edits(p) == {q \in Projects : Cardinality((q \ p) \cup (p \ q)) = 1}

(***************************************************************************)
(* The same command again on the edited project: run makes build_dir     *)
(* with exist_ok=True, so every file of the earlier run is still there.   *)
(***************************************************************************)
NewRun ==
    /\ pc = "done"
    /\ run < MaxRuns
    /\ run' = run + 1
    /\ project' \in Edits(project)
    /\ pc' = "discover"
    /\ srcs' = <<>>
    /\ i' = 1
    /\ bcs' = <<>>
    /\ outcome' = "running"
    /\ UNCHANGED <<entry, split, includeCpp, sanitizers, verify, fs>>

Terminated ==
    /\ pc = "done"
    /\ UNCHANGED vars

(***************************************************************************)
(* The split and verify arguments each entry point can hand to run.       *)
(* pipeline.main parses --verify (store_true) and calls run_pipeline,     *)
(* which calls run with split=False; Compiler.main parses its flags into  *)
(* a CompilerConfig and calls run(build_dir="build", split=False), never  *)
(* verifying.  Both parse --include_cpp as store_true and --sanitizers as *)
(* a comma-separated string.                                              *)
(***************************************************************************)
PipelineMain == [split |-> {FALSE}, verify |-> BOOLEAN]

CompilerMain == [split |-> {FALSE}, verify |-> {FALSE}]

LibraryRun == [split |-> SplitModes, verify |-> BOOLEAN]

EntryArgs == [pipeline |-> PipelineMain, compiler |-> CompilerMain, run |-> LibraryRun]

Init ==
    /\ entry \in Entries
    /\ run = 1
    /\ project \in Projects
    /\ split \in EntryArgs[entry].split
    /\ includeCpp \in CppModes
    /\ sanitizers \in Requests
    /\ verify \in EntryArgs[entry].verify
    /\ pc = "discover"
    /\ srcs = <<>>
    /\ i = 1
    /\ bcs = <<>>
    /\ fs = <<>>
    /\ outcome = "running"

Step ==
    \/ Discover \/ CompileToBitcode \/ CompileIndividual \/ LinkBitcode
    \/ ToTextIr \/ VerifyIr \/ CompileIr \/ Optimize \/ VerifyOptimized
    \/ CompileOptimized

Next == Step \/ NewRun \/ Terminated

(* Synchronous subprocess calls: each step of a run is taken once it is  *)
(* enabled.  Whether the user runs the command again is not constrained. *)
Spec == Init /\ [][Next]_vars /\ WF_vars(Step)

-----------------------------------------------------------------------------
(* Properties *)

Sources == UNION Projects

ObjPaths == {<<"objs", s.stem>> : s \in Sources}

(* The binary the entry point returns.                                  *)
Product == IF entry = "pipeline" THEN OptBin ELSE ProgramBin

Paths == ObjPaths \cup {ProgramBc, ProgramLl, ProgramBin, OptLl, OptBin}

Outcomes == {"running", "ok", "NoSourcesFound", "NoInputsProvided", "clang",
             "llvm-link", "ld"}

TypeOK ==
    /\ entry \in Entries
    /\ run \in 1..MaxRuns
    /\ pc \in {"discover", "bitcode", "compile", "text", "verify", "binary",
               "optimize", "optverify", "optbinary", "done"}
    /\ srcs \in Seq(project)
    /\ i \in 1..Len(srcs) + 1
    /\ bcs \in Seq(ObjPaths)
    /\ DOMAIN fs \subseteq Paths
    /\ \A p \in DOMAIN fs :
          fs[p] \in [kind : {"bc", "ll", "bin"}, units : SUBSET Sources,
                     sans : SUBSET Range(SanFlag)]
    /\ outcome \in Outcomes

(***************************************************************************)
(* Each run, seen through its outcome and the binary its entry point     *)
(* returns, is a Build of the sources discover_sources finds: whatever    *)
(* the entry, the project, the split mode, the sanitizers and the order   *)
(* os.walk lists the files in, it ends, and when it succeeds the binary   *)
(* holds every discovered source and nothing else.  An object             *)
(* compile_individual overwrote is never linked silently, link_bitcode    *)
(* links every entry of bc_files and no object an earlier run left in     *)
(* objs/, and no failed step is followed by a success.                    *)
(***************************************************************************)
BuildStatus ==
    CASE outcome = "running" -> "building"
      [] outcome = "ok"      -> "built"
      [] OTHER               -> "failed"

B == INSTANCE Build WITH
        Files   <- Sources,
        sources <- Included,
        status  <- BuildStatus,
        binary  <- IF outcome = "ok" THEN fs[Product].units ELSE {}

ImplementsBuild == B!Spec

(***************************************************************************)
(* A run on a project that has sources ends with the binary its entry    *)
(* point returns (program_optimized for run_pipeline, program otherwise)  *)
(* built from every one of them and carrying the sanitizers requested:    *)
(* run and run_pipeline neither fail nor drop a translation unit or a     *)
(* sanitizer.                                                              *)
(***************************************************************************)
EveryProjectBuildsWhole ==
    pc = "done" =>
        \/ Included = {}
        \/ /\ outcome = "ok"
           /\ fs[Product].units = Included
           /\ fs[Product].sans = Instrumented

=============================================================================
