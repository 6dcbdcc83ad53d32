-------------------------------- MODULE MCHd --------------------------------
(* A small instance of Hd: a disk with a primary and two extended partitions, *)
(* the first of which has as many logical ones as it can.                     *)
EXTENDS Hd, TLC

CONSTANT u

Entry(id, start, n) == [sys_id |-> id, start_sect |-> start, nr_sects |-> n]
None == Entry("NO_PART", 0, 0)

MCDisk ==
       0 :> <<Entry("PART", 1, 3), Entry("EXT_PART", 4, 7), Entry("EXT_PART", 11, 3)>>
    @@ 4 :> <<Entry("PART", 1, 1), Entry("EXT_PART", 2, 2), None>>
    @@ 6 :> <<Entry("PART", 1, 1), Entry("EXT_PART", 4, 3), None>>
    @@ 8 :> <<Entry("PART", 1, 2), None, None>>
    @@ 11 :> <<Entry("PART", 1, 2), None, None>>

MCTables == 2 :> <<4, 6, 8>> @@ 3 :> <<11>>

\* Minor numbers: 1 to 3 primary, then three for each primary one.
Part(base, size) == [base |-> base, size |-> size]
MCPartition ==
    1 :> Part(1, 3) @@ 2 :> Part(4, 7) @@ 3 :> Part(11, 3)
    @@ 19 :> Part(5, 1) @@ 20 :> Part(7, 1) @@ 21 :> Part(9, 2) @@ 22 :> Part(12, 2)

\* The last one has more sectors than the register can count.
MCRequest == {
    Msg("DEV_OPEN", 21, 0, 0), Msg("DEV_CLOSE", 21, 0, 0), Msg("DEV_IOCTL", 22, 0, 0),
    Msg("DEV_READ", 1, 512, 1024), Msg("DEV_READ", 20, 0, 512),
    Msg("DEV_WRITE", 21, 0, 1024), Msg("DEV_READ", 1, 0, 1536)}
=============================================================================
