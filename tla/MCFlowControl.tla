---------------------------- MODULE MCFlowControl ----------------------------
EXTENDS FlowControl

Both == {"StallLatency", "PipeStall"}
PipeStallOnly == {"PipeStall"}
=============================================================================
