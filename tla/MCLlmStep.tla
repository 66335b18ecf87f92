----------------------------- MODULE MCLlmStep -----------------------------
EXTENDS LlmStep, TLC

\* Two roles, one with the tools and one without, share the clock and the token;
\* an LLM call is at most two steps of the loop with two tool calls each.
=============================================================================
