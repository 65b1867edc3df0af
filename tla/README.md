# TLA+ models of DESAN

DESAN removes redundant sanitizer checks from LLVM IR. It compiles a C/C++
project with sanitizers to bitcode. It then finds the sanitizer runtime calls
(the checks) and relates their operands through a pointer-derivation graph.
A check that shares an alias with an earlier check, where neither is written,
is marked redundant. Finally the textual IR is rewritten with those call lines
deleted, and recompiled.

This directory holds TLA+ modules that model the build, analysis and rewrite of
`src/`, the TLC configurations that check them, and `PROJECT.json`. That file
lists the components, runs, mutants, the definition-to-source map, the
findings and the hazards.

## The system's parts and how they interact

| Part | Source | State it builds | Operations |
|---|---|---|---|
| Pointer-derivation graph | `alias_analysis.py` | `AliasGraph.nodes`, `edges` (Pointer = (text, is_write)) | `build_alias_graph`, `add_node`, `add_edge`, `get_aliases` |
| Call graph | `alias_analysis.py` | `CallGraph.calls`, `reverse_calls` | `build_call_graph`, `add_call` |
| Function summaries, points-to | `analysis_utils.py` | per-function counters, `uses` map, `pts` map | `collect_function_summaries`, `propagate_globals`, `points_to`, ... |
| Sanitizer call extraction | `sanitizer.py` | list of `SanitizerCall` | `find_sanitizer_calls`, `is_sanitizer_function` |
| Dependency subgraphs | `dependency.py` | dict key -> `CheckSubgraph` (details: operand -> `OperandInfo`) | `build_for_call`, `build_all` |
| Redundancy analyzer | `redundancy.py` | redundant key set; rewritten lines | `is_redundant_pair`, `analyze`, `optimize_ir_text`, `optimize_ir_file`, `verify_ir` |
| Ranking strategy | `strategy.py` | `CheckNode` cost and `overlap_count` | `wrap_subgraphs`, `compute_overlap_counts`, `rank_nodes`, `select_redundant_keys` |
| Compiler driver | `compiler.py` | files in the build directory | `compile_to_bitcode`, `compile_individual`, `link_bitcode`, `to_text_ir`, `compile_ir`, `run` |
| Pipeline | `pipeline.py` | - | `run_pipeline` calls the driver, then the analysis, then the driver again |
| Reporting | `utils.py` | - | read-only counting and formatting |

`run_pipeline` hands the parsed bitcode to `SubgraphBuilder`, which builds the
derivation graph and the call list, then one `CheckSubgraph` per call under the
key `"<func.name>:call<idx>"`. `RedundancyAnalyzer.analyze` compares all pairs
i < j in insertion order. `optimize_ir_text` then re-derives the keys from the
`.ll` text produced by `llvm-dis` from the same bitcode. It takes the function
from each `define` line and counts sanitizer-looking call lines per function.
Two separate traversals must agree on the keys: one over the in-memory module
and one over its text. That agreement is the most fragile coupling in the
system.

Everything is sequential and single-threaded (spec §5). The hard behaviours are
therefore not thread interleavings. They are:

- the agreement between the two traversals;
- the order dependence of the pairwise marking;
- value identity by printed text;
- the termination of the graph walks on cyclic graphs;
- state that survives between calls in the ranking strategy.

## Modules

| Module | Models | Checked by |
|---|---|---|
| `DesanIR` | The input LLVM module and its text. Functions are sequences of instructions that keep only the operands the passes read. `Str` is what `str()` prints for a value; `IsSanLine` is the line test of `optimize_ir_text`. | (used by `Desan`) |
| `Desan` | The analysis core as one sequential state machine, with phases `graph` → `calls` → `subgraphs` → `analyze` → `rewrite` → `done`. Each loop iteration of a pass is one action. | `MC_Desan.cfg`, three violation cfgs |
| `AliasQuery` | The abstract promise of `get_aliases`: a query on a fixed graph answers, in one step, the start node plus its descendants. | (refined by `GetAliases`) |
| `GetAliases` | The iterative DFS of `AliasGraph.get_aliases`: a stack, a visited set, one action per loop iteration. `AQ == INSTANCE AliasQuery` maps the DFS onto the abstract query; the variable names are shared, so the mapping is the identity on `graph`, `start` and `result`. | `MC_GetAliases.cfg` |
| `CallSummaries` | The whole-program passes of `alias_analysis.py` and `analysis_utils.py`, as one machine with phases `cg` → `summ` → `rc` → `prop` → `pts` → `done`: `build_call_graph`, `collect_function_summaries` (`FunctionSummary.update` per instruction), `build_reverse_call_graph`, the `propagate_globals` sweeps (`NewSweep`, `SweepEntry` per reverse-graph entry, `EndSweep`) and `points_to`. Keys are the printed texts the code uses: `CalleeText` is what `str()` prints for a callee (`define @h...` for a function, `@a = alias ...` for a global alias, the slot's text for a register). | `MC_CallSummaries.cfg`, one violation cfg |
| `Compiler` | The three entry points: `pipeline.main`/`run_pipeline` (`"pipeline"`), `Compiler.main` (`"compiler"`) and a library call of `Compiler.run` (`"run"`). Both mains call `run` with `split=False`, and `Compiler.main` never verifies (`EntryArgs`). The steps are `Compiler.run` and then, for the pipeline, the rest of `run_pipeline`: `discover_sources` (any `os.walk` order), `compile_to_bitcode` or `compile_individual` + `link_bitcode`, `to_text_ir`, `compile_ir`, then the optimized IR and its binary. The sanitizer request is the comma-split string of `run_pipeline`, turned into flags by `sanitize_flags` (`SanitizeFlags`, a fold). `fs` maps a path of the build directory to the kind of file, the set of sources whose code it holds, and the sanitizers it is instrumented for. `compile_ir` fails (outcome `"ld"`) when instrumented code is linked without its runtime, since it passes no link flags. `B == INSTANCE Build WITH ...` maps each run onto the abstract `Build`. The build directory outlives a run. `NewRun` is the same command run again on the project with one file added or deleted, up to `MaxRuns` runs, with every file of the earlier run still in place (`mkdir(exist_ok=True)`). | `MC_Compiler.cfg`, two violation cfgs |
| `Build` | The promise of a build: from a set of sources, it either fails or yields a binary built from exactly those sources. It never stays running (weak fairness). Once it has ended, `Rebuild` may start it again on other sources. | (refined by `Compiler`) |
| `Strategy` | `strategy.py`. `wrap_subgraphs` runs once, then a caller calls `rank_nodes` or `select_redundant_keys` up to `MaxCalls` times on the same nodes. `compute_overlap_counts` is one action per pair. The stable reverse sort is `RankedBy`. | `MC_Strategy.cfg`, one violation cfg |

How `Desan` corresponds to the code:

- `prog` is the module; it is chosen in `Init` and never changes.
- `nodes` and `edges` are the `AliasGraph`, with edges as a set of pairs.
- `calls` is `find_sanitizer_calls`'s list.
- `subgraphs` is `build_all`'s dict, kept as a sequence in insertion order, with the key in each record.
- `ai`, `aj` and `redundant` are `analyze`'s loop variables and result.
- `curFunc`, `callCount` and `out` are `optimize_ir_text`'s `current_func`, `call_count` and `optimized_lines` (kept as line numbers).

The actions of `Desan`:

- **graph:** `GraphStore` handles a store (a write-tagged node, no edge). `GraphDerive` handles a load, conversion or gep (an edge between untagged nodes). `GraphIgnore` handles every other opcode.
- **calls:** `CallRecord` records a sanitizer call; `CallSkip` passes over any other instruction. The test is `CalleeIsSanitizer`, on `str(callee)` as the code computes it: for a function the module defines, that text is the whole definition, so the callee qualifies when any line of its body mentions a sanitizer fragment (`MentionsFragment`).
- **subgraphs:** `BuildSubgraph` builds the subgraph of one call.
- **analyze:** `AnalyzeSkip`, `AnalyzeMark` and `AnalyzeKeep` cover the three outcomes of one (i, j) pair.
- **rewrite:** `RewriteDefine` handles a `define` line. `RewriteSanCall` handles a sanitizer line: the counter advances, and the line is dropped if its key is redundant. `RewritePass` handles every other line.

Value identity follows the code:

- a parameter prints as its declaration (`<<"arg", "%p">>`, the same in every function);
- a global prints as its definition;
- an instruction prints as its own text: opcode, operand and slot, never the function.

The `define` token that `optimize_ir_text` picks for function `f` is `"@f(ptr"`, because every function in the models takes `ptr %p`.

## Runs

The passing runs are these:

- **pipeline** (`MC_Desan.cfg`):
  - `AnalysisMatchesReference`: after the analysis, the set of removed checks is exactly the spec's greedy rule. A check is removed iff an earlier check shares an alias name with it and neither is written, where aliases and the write tag are computed from a reachability definition over the derivations of the module, not from the loops. A mistake anywhere in the chain would break it: graph, extraction, subgraphs, or the pair loop with its skip.
  - `RewriteKeepsRetained`: the rewrite never deletes the call line of a check that `analyze` kept. It holds today only because the rewrite deletes nothing at all (`rewrite_removes_redundant` below shows that bug; the module and `optimize_ir_text` docstrings, `redundancy.py:10-12` and `:62-68`, say redundant lines are removed). Mutating `DefineToken` to the bare name, which is the obvious fix of that bug, makes TLC delete a retained check: the global ordinals of `build_all` meet the per-function ordinals of the rewrite.
  - `TypeOK`.
- **get_aliases** (`MC_GetAliases.cfg`): every start node on every graph over three nodes, self loops and cycles included. `ImplementsAliasQuery` is the abstract specification `AQ!Spec` checked as a property: the DFS terminates and returns the forward closure. `TypeOK` bounds the stack by 1 + |edges|.
- **strategy** (`MC_Strategy.cfg`): `FirstRankingMatchesReference` says the first ranking a caller gets equals the sort by cost + total pairwise overlaps, ties in dict order. The reference sums overlaps over the other candidates with `MapThenSumSet`.

- **call_summaries** (`MC_CallSummaries.cfg`): `PropagateTerminates` (under `WF_vars(Next)`): the passes end, the `changed` loop of `propagate_globals` included; a sweep that leaves `changed` set breaks it. This run says little more. The reverse call graph is keyed by alias texts (`@a`), and `uses` by function names, so `propagate_globals` never marks anything (see `propagates_through_calls`). `points_to` is keyed by printed text across functions and depends on block layout, and the spec gives it no rule stronger than the code, so no property states what it returns.
- **compiler** (`MC_Compiler.cfg`): `ImplementsBuild` is the abstract `B!Spec`, checked as a property under the refinement mapping:
  - `sources` is the set of discovered sources (`Included`);
  - `status` is building, built or failed, according to `outcome`;
  - `binary` is the set of sources in the binary the entry point returns (`program_optimized` for the pipeline, `program` otherwise) once the run is `"ok"`;
  - a new run is a `Rebuild`.
  
  It is checked for every source tree of up to three files, each entry point with the `split` and `verify` values it can pass, both `include_cpp` values, six sanitizer requests and every `os.walk` order. A second run follows, on the tree with one file added or deleted. Every run ends. A successful run never links an overwritten object silently, and it links all of `bc_files` and no object an earlier run left in `objs/`. Mutating `link_bitcode` to link everything in `objs/` breaks this, but only in a second run.

The violation runs each check one property, and each is a finding:

| Run | Property | What TLC shows |
|---|---|---|
| `soundness_guard` | `SoundnessGuard` | In `h = san(%p); san(%p); store %p`, the second check is removed. The store's write tag sits on a node no query reaches (`alias_analysis.py:124`, `dependency.py:65-67`), so `is_write` is always false. |
| `rewrite_removes_redundant` | `RewriteRemovesRedundant` | A redundant check keeps its line, because the rewrite's key uses `"@f(ptr"` and never matches `"f"` (`redundancy.py:79-83`). |
| `propagates_through_calls` | `PropagatesThroughCalls` | `f` calls `h`, which loads `@g`, yet `f` is not marked. `build_call_graph` keeps a call only when `str(callee)` starts with `@` (`alias_analysis.py:151`), which holds for a global alias but never for a function, whose text starts with `define`/`declare`. |
| `single_invocation` | `EveryProjectBuildsWhole` | `run_pipeline` always calls `run(split=False)`, and `compile_to_bitcode` hands every source to one `clang -c ... -o program.bc`, which clang rejects with two inputs (`pipeline.py:58`, `compiler.py:126-131`). Only single-file projects build. |
| `callee_text` | `ExtractionMatchesReference` | In `f = call @h(%p)` with `h = san(%p)`, the call of `h` is extracted as a check. `find_sanitizer_calls` tests `str(callee)`, which for a defined function is its whole text, `__asan_load4` included (`sanitizer.py:57-58`); §4.3 says the callee *name* must carry the fragment. The rewrite's line test does not treat that line as a sanitizer call, so every later ordinal of the function is off by one. |
| `sanitizer_runtime` | `EveryProjectBuildsWhole` | With the default request `"asan"`, even a one-file project fails. The IR is instrumented with `-fsanitize=address`, but `compile_ir` links it with no flags, so the ASan runtime symbols are undefined (`compiler.py:180-184`, called from `compiler.py:213` and `pipeline.py:73`). With `lsan` alone, the link succeeds but leak checking is silently lost. |
| `select_repeatable` | `SelectIsRepeatable` | A second `select_redundant_keys` on the same nodes reorders the keys: `compute_overlap_counts` accumulates into the shared `CheckNode`s (`strategy.py:86-88`). |

An earlier violation run, replaced by `callee_text` because its path is one no entry point takes, showed a further bug: in a library call of `run(split=True)`, `a.c` and `a.cpp` (or `sub/a.c`) both write `objs/a.bc` (`compiler.py:139-140`), and `llvm-link` gets the surviving object twice and fails. `MC_Compiler` still enumerates those trees, and the hazard stays listed.

Every property of a passing run has a mutant in `PROJECT.json`: a plausible slip in the mapped code, under which TLC finds the property violated.

## Bounds and why they are enough

- **`MC_Desan`:** two functions `f` and `h` with up to three instructions between them, about 11k programs and 200k states.
  - Operands are the parameter `%p`, one global `@g`, one sanitizer-named global, and the results of earlier loads and geps.
  - Instructions are a store, a load, a gep, a sanitizer call with one or two distinct arguments, a plain call with a sanitizer-named global argument, or another opcode.
  - Every finding needs at most three checks: two to make a pair, and a third for transitive marking or for ordinal drift.
  - `MC_Desan_CalleeText.cfg` fixes `f` to one call of `h` on `%p` and lets `h` be any body of one or two instructions (`MCCallingPrograms`).
  - Two functions are the least that exposes per-function keys and cross-function identity.
  - One parameter name is enough, because identity by printed text only needs two functions to share it.
- **`MC_GetAliases`:** all graphs over three nodes (512), from every start. This covers chains, diamonds, cycles of length 1 to 3 and disconnected nodes, which are all the shapes the visited test distinguishes.
- **`MC_Strategy`:**
  - two or three checks of the msan, asan or ubsan kind, on operands x and y with alias sets {x}, {y} or {x, y};
  - written or not, and one two-operand check;
  - two calls by the caller.
  This gives overlap counts from 0 to 4, and ties in score, which is where the stable order matters.

- A one-off check of `MC_Desan` at four instructions passed with no violation: 5.9M states in 9 minutes, beyond the time a run may take.
- **`MC_CallSummaries`:**
  - two defined functions `f` and `h` with up to three instructions between them, a declared `malloc`, a global `@g` and a global alias `@a` of `h`;
  - calls to `h`, `malloc`, the alias, or through a register.
  This is enough for a direct call, a call through an alias (the only kind the code records), a two-step chain, and a `bitcast` of a `bitcast`. About 310k states. Blocks are laid out in dominance order. With any other order, `points_to` depends on layout (`analysis_utils.py:143`); that is listed as a hazard.
- **`MC_Compiler`:** files `a` and `b`, in the top directory or in `sub/`, as `.c`, `.cpp` or `.h`, in every tree of at most three files (about 300 trees). This covers two-source projects, same-stem pairs across extension and directory, C++-only trees with `include_cpp` off, and trees with no sources.
  - Six sanitizer requests cover: none; an unknown name; a trailing comma; a repeated name; `lsan` alone, which needs no runtime symbols; and `lsan,asan`. With the three entry points and a second run after a one-file edit, this gives about 500k states (25 s).

## Fairness

`Desan`, `GetAliases` and `CallSummaries` are sequential loops with nothing that can stall, so `WF_vars(Next)` holds for the program. `Compiler` has the same weak fairness, but only on the steps of a run (`WF_vars(Step)`): whether the user runs the command again is not the program's to decide. `AliasQuery`'s `Answer` and `Build`'s `Succeed \/ Fail` are weakly fair (its `Rebuild` is not), which makes termination part of what `GetAliases` and `Compiler` must implement. The `Strategy` caller may stop at any time, so no fairness is assumed there, and its properties are safety properties. The terminal stuttering actions (`Terminated`, `Returned`, `Finished`) mark where the program really stops. That is why deadlock checking can stay on.

## What is not modelled, and why

- The LLVM tools themselves are not modelled. `Compiler` models each subprocess call by its effect on the build directory. It assumes that every source compiles, that instrumented code links only with its runtime, that clang refuses `-c` with several inputs and one `-o`, and that `llvm-link` fails on a module given twice. The calls have no timeout (`compiler.py:131`), which is listed as a hazard.
- `build_flags` and the `CompilerConfig` helpers only format arguments. The CLIs are modelled only through the argument values they can produce.
- The `opt -verify` calls (`run`'s `verify`, `verify_ir`) are steps of `Compiler` that always pass. They check the IR the rewrite leaves, which is `program.ll` unchanged, because today the rewrite deletes nothing (the bug of `rewrite_removes_redundant`). `Optimize` models `pipeline.py:66` as that copy; it would stop being exact once that bug is fixed.
- `utils.py`, the query helpers of `analysis_utils.py` (`may_alias`, `find_aliasing_pairs`, `collect_store_sites`, `gather_all_values`, `estimate_check_cost`, ...) and the formatting helpers (`call_summary`, `summary`, `save_json`, `print_graph`) only read and print. No code of the pipeline calls them. As operators, they would filter the module the same way the summaries already do, so a property over them would restate its own definition.
- The unused alias helpers (`reverse_aliases`, `points_to_sets`, `alias_set_for_value`, `any_write_alias`, `alias_intersection`) are not called by the pipeline.
- The distance term of `compute_score` is never set by any code.

## Plan for later sittings

1. Widen `MC_Desan` in what is enumerated rather than its length: four instructions take 9 minutes. Options are a second parameter name, or a `bitcast` as its own opcode. Add an MC that fixes the two key bugs (the define token and the global ordinals), to check what the rewrite would then do with `RewriteKeepsRetained` and `AnalysisMatchesReference` together.
2. Connect `CallSummaries` to the analysis. No pipeline path reads its results today, so state, as a property, that analysis and rewrite do not depend on them.
3. Model the unused alias helpers (`reverse_aliases`, `points_to_sets`, `alias_intersection`) as operators checked against `Descendants` and `Ancestors`.
4. Let `opt -verify` and the compiler fail in `Compiler` (a source that does not compile) across reruns. This would state §7's "no partial success" for the files a failed run leaves beside those of the run before.
