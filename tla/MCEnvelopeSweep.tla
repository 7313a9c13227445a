-------------------------- MODULE MCEnvelopeSweep --------------------------
(* Small devices, ten milliwatts to the watt, and tunings on both sides of *)
(* every repair.  The last two devices are not sane: a boost ceiling below *)
(* the SPL range, and a range that is not whole watts; the last OD_RANGE   *)
(* is no range.                                                            *)
EXTENDS EnvelopeSweep

Device(a, b, c, d, e, f, g, h) ==
  [lim |-> [spl_min |-> a, spl_max |-> b, sppt_min |-> c, sppt_max |-> d,
            fppt_min |-> e, fppt_max |-> f],
   od |-> [range_min |-> g, range_max |-> h]]

MCMachines ==
  {Device(70, 350, 130, 430, 190, 530, 600, 2900),
   Device(50, 150, 50, 150, 50, 150, 0, 1),
   Device(40, 40, 40, 90, 90, 90, 200, 203),
   Device(0, 120, 10, 125, 200, 200, 7, 1007),
   Device(70, 300, 20, 200, 30, 250, 100, 150),
   Device(75, 155, 80, 200, 90, 250, 800, 800)}

MCConfigs ==
  [sppt_factor : {90, 130}, fppt_factor : {0, 125},
   low_frac : {0, 33, 80}, high_frac : {50, 67, 140},
   efficiency_frac : {0, 30, 100, 250}]

MCFractions == [Tier -> {0, 51, 300, NotFinite}]

\* Every power tuning with the default fractions, and every triple of
\* fractions with the default tuning.
MCTunings ==
  [tuning : MCConfigs, fractions : {DefaultFractions}]
    \cup [tuning : {DefaultConfig}, fractions : MCFractions]
=============================================================================
