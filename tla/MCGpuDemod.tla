----------------------------- MODULE MCGpuDemod ------------------------------
(***************************************************************************)
(* Small instances: blocks of 8 samples (one pass of the FFT, an odd number*)
(* like the five of 32768) and of 64 (two passes, with twiddles).          *)
(***************************************************************************)
EXTENDS GpuDemod

MCLens == {8, 64}
MCRfTaps == <<<<1, 0>>, <<3, 5>>>>
MCMtfTaps == <<<<1, 0>>, <<6, 0>>>>
MCHpfTaps == <<<<1, 0>>, <<126, 0>>>>
MCEfmTaps == <<<<2, 0>>, <<9, 0>>, <<4, 0>>>>
MCVideoTaps ==
    <<<<<<3, 0>>>>, <<<<1, 0>>, <<2, 0>>, <<1, 0>>>>, <<<<5, 0>>, <<1, 0>>, <<120, 0>>, <<2, 0>>>>>>
MCVideoOffsets == <<0, 2, 3>>
MCAudioSlice ==
    (8 :> <<[lowbin |-> 1, nbins |-> 4], [lowbin |-> 2, nbins |-> 4]>>)
    @@ (64 :> <<[lowbin |-> 5, nbins |-> 16], [lowbin |-> 9, nbins |-> 16]>>)
MCAudioTaps == <<<<<<1, 0>>, <<7, 0>>>>, <<<<2, 0>>, <<11, 0>>>>>>
MCBlockCut == (8 :> 4) @@ (64 :> 8)

MCCallers == {"field", "prefetch"}

\* Blocks of 8 keep 2 samples: blocks 0 and 1 have narrow, integral samples,
\* block 5 has fractions, block 9 spans more than the codes.
MCStream ==
    (8 :> <<4, 12, 2, 8, 14, 6, 0, 10, 2, 16, 3, 9, 4, 13, 7, 6, 11, 2,
            4, 60, 8, 2, 44, 0, 30, 6>>)
    @@ (64 :> [i \in 1..64 |-> 2 * ((i * i * 5 + 3 * i) % 8)])

Call(blocks, level) == [blocks |-> blocks, level |-> level]

Host == [runtime |-> TRUE, pick |-> 0, builds |-> TRUE,
         platforms |-> <<<<>>, <<[fp64 |-> TRUE]>>>>]

Scenario(len, asked, host, field, prefetch, failing, unallocated, depth) ==
    [len |-> len, gpu |-> asked, host |-> host, rot |-> 1,
     calls |-> [field |-> field, prefetch |-> prefetch],
     faults |-> failing, allocs |-> unallocated, depth |-> depth]

MCScenarios ==
    {Scenario(8, TRUE, Host, <<Call(<<0, 1>>, 1)>>, <<Call(<<5>>, 2)>>, 2, 0, 3),
     Scenario(8, TRUE, Host, <<Call(<<0, 1, 5>>, 1), Call(<<9>>, 2)>>, <<Call(<<1>>, 0)>>, 0, 0, 2),
     Scenario(8, TRUE, Host, <<Call(<<0>>, 1)>>, <<Call(<<1>>, 1)>>, 0, 1, 2),
     Scenario(8, TRUE, Host, <<Call(<<0>>, 1), Call(<<0, 1>>, 1), Call(<<1>>, 1)>>, <<>>, 0, 1, 1),
     Scenario(64, TRUE, Host, <<Call(<<0>>, 1)>>, <<>>, 0, 0, 1),
     Scenario(8, FALSE, Host, <<Call(<<0, 1, 5>>, 1)>>, <<Call(<<9>>, 0)>>, 0, 0, 1)}
    \cup {Scenario(8, TRUE, host, <<Call(<<0>>, 1)>>, <<>>, 0, 0, 1) :
             host \in {[Host EXCEPT !.runtime = FALSE], [Host EXCEPT !.pick = 1],
                       [Host EXCEPT !.builds = FALSE],
                       [Host EXCEPT !.platforms = <<<<[fp64 |-> FALSE]>>>>]}}
=============================================================================
