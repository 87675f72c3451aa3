---------------------------- MODULE MCProbeScope ----------------------------
\* Casts of commands for checking ProbeScope, on probes numbered as in the
\* registry.
EXTENDS ProbeScope, TLC

\* Two streams that share a probe, an `on` that hits only the first, and a
\* reset, which hits both.
MixKind == "t" :> "trace" @@ "n" :> "native" @@ "x" :> "on" @@ "r" :> "reset"
MixScope == "t" :> <<1, 2>> @@ "n" :> <<2>> @@ "x" :> <<1>> @@ "r" :> <<1, 2>>

\* Two streams on one probe.
PairKind == "t" :> "trace" @@ "u" :> "native"
PairScope == "t" :> <<1>> @@ "u" :> <<1>>
=============================================================================
