------------------------------ MODULE MCSampler ------------------------------
(* Command lines for TLC.                                                  *)
EXTENDS Sampler

CommandLine(w, n, t) == [watch |-> w, samples |-> n, alertThreshold |-> t]

\* A watch with one sample a round, one with the median of two, one with a
\* threshold that is no severity, and a single-shot run of three samples.
MCConfigs == {CommandLine(TRUE, 1, "HIGH"), CommandLine(TRUE, 2, "MEDIUM"),
              CommandLine(TRUE, 1, "urgent"), CommandLine(FALSE, 3, "INFO")}

SingleShot == {CommandLine(FALSE, 1, "INFO")}
=============================================================================
