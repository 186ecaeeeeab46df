---------------------------- MODULE MCGenerator ----------------------------
(* The database of the repository, the IDs idma.mk generates, every short  *)
(* sequence of words as an ID, and several IDs in one invocation.          *)
EXTENDS TraceIdma

MCAlphabet == <<"", "axi", "axil", "axis", "chi", "init", "obi", "r", "rw", "tilelink", "w">>

MCLanes == {{1}, {0, 1}}

RepositoryIds ==
    {<<"rw", "axi">>, <<"r", "obi", "w", "axi">>, <<"r", "axi", "w", "obi">>, <<"rw", "axi", "rw", "axis">>,
     <<"r", "obi", "rw", "init", "w", "axi">>, <<"r", "axi", "rw", "init", "rw", "obi">>}

OtherIds == {<<"rw", "axil", "w", "tilelink">>, <<"rw", "tilelink">>, <<"r", "init", "w", "axi">>, <<"r", "chi">>}

(* The tracer idma.mk builds, with all its IDs in one invocation. *)
TracerRequests == [entity : {"tracer"}, ids : {SetToSeq(RepositoryIds)}, fids : {<<>>}, files : {Files}]
MCSimulated ==
    TracerRequests
    \cup [entity : {"tracer"}, ids : {<<<<"rw", "tilelink">>>>, <<<<"r", "init", "w", "axi">>>>}, fids : {<<>>}, files : {Files}]

(* Words in any order: four of few words, up to three of all words, and    *)
(* six of three words.                                                     *)
Words == ToSet(MCAlphabet)
Short ==
    UNION {[1..n -> Words] : n \in 1..2} \cup [1..4 -> {"r", "rw", "w", "axi", "obi"}]
    \cup [1..6 -> {"r", "rw", "w", "obi"}] \cup [1..3 -> {"r", "w", "axi"}]

Invoke(entities, idLists, fidLists) ==
    [entity : entities, ids : idLists, fids : fidLists, files : {Files}]

WithPorts == {"transport", "legalizer", "backend", "vsim_wave", "testbench", "synth_wrapper", "tracer"}
Pairs(ids) == {<<a, b>> : a \in ids, b \in ids}

Fids == {<<w, d>> : w \in {16, 32, 64}, d \in 0..9}

MCRequests ==
    Invoke({"backend"}, {<<id>> : id \in Short}, {<<>>})
    \cup Invoke(WithPorts, {<<id>> : id \in RepositoryIds \cup OtherIds}, {<<>>})
    \cup Invoke(WithPorts, Pairs(RepositoryIds \cup OtherIds) \cup {<<>>, <<<<"rw", "axi">>, <<"rw">>>>}, {<<>>})
    \cup [entity : WithPorts, ids : {<<id>> : id \in RepositoryIds}, fids : {<<>>}, files : {<<Files[1]>>, <<>>}]
    \cup Invoke({"reg_hjson", "reg_top"}, {<<>>, <<<<"w">>>>},
                {<<>>, <<<<>>>>} \cup {<<<<f>>>> : f \in Fids} \cup {<<<<<<32, 3>>>>, <<<<64, 2>>, <<32, 3>>>>>>})
    \cup MCSimulated
============================================================================
