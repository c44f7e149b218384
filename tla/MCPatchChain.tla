---------------------------- MODULE MCPatchChain ----------------------------
(* Retail ROMs, and ROMs that differ from retail at one or two sites.       *)
EXTENDS PatchChain

MCRegions == {"usa", "jp"}

\* The kinds found by a signature that could be there twice.
Searched == {"gate", "fix", "builder"}
Foreign(s) == {"other", "patched"} \union (IF s[1] \in Searched THEN {"twice"} ELSE {})

One(sites) ==
  UNION {{[s \in {t} |-> c] : c \in Foreign(t)} : t \in sites}
Two(sites) ==
  UNION {{[s \in p |-> content[s]] :
            content \in {f \in [p -> Content] : \A s \in p : f[s] \in Foreign(s)}} :
          p \in {q \in SUBSET sites : Cardinality(q) = 2}}

\* Sites a patcher's decision turns on.
Deciding ==
  {<<"fix", 7>>, <<"call", 1>>, <<"target", 1>>, <<"caller", 1>>}
    \union Hook \union RepeatSites \union {<<"prefight", 1>>} \union Builder

MCDeviations == {<<>>} \union One(Site \ Checksum) \union Two(Deciding)
=============================================================================
