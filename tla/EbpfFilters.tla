----------------------------- MODULE EbpfFilters ----------------------------
(***************************************************************************)
(* The helper's copy of the filters: rthas-ebpf/src/pipe.rs is            *)
(* rthas/src/pipe.rs word for word but for the layout of one line, so each *)
(* function of that file is the one of Filters.                            *)
(***************************************************************************)
EXTENDS Filters

EbpfIsPipeVerb(segment) == is_pipe_verb(segment)
EbpfSplitPipeline(segments) == split_pipeline(segments)

EbpfGrepParse(tokens) == GrepParse(tokens)
EbpfGrepMatches(g, line) == GrepMatches(g, line)
EbpfFormat(g, n, line) == Format(g, n, line)
EbpfStopped(g) == Stopped(g)
EbpfGrepFeed(g, line) == GrepFeed(g, line)
EbpfGrepFinish(g) == GrepFinish(g)
EbpfTeeParse(tokens) == TeeParse(tokens)

EbpfStageParse(spec) == StageParse(spec)
EbpfStageFeed(stage, line) == StageFeed(stage, line)
EbpfStageFinish(stage) == StageFinish(stage)

EbpfPipelineNew(specs, files) == PipelineNew(specs, files)
EbpfEmitLine(p, line) == emit_line(p, line)
EbpfPipelineWrite(p, bytes) == PipelineWrite(p, bytes)
EbpfPipelineFinish(p) == PipelineFinish(p)
=============================================================================
