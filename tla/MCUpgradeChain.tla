--------------------------- MODULE MCUpgradeChain ---------------------------
(* UpgradeChain on every text over small numbers, well formed or not. *)
EXTENDS UpgradeChain

MCPre   == [stem : {"alpha", "beta", "rc", "word", ""}, rest : {None, Junk, 0, 1}]
MCParts == {<<1, 2>>, <<1, 2, 3>>, <<1, 3, 0>>, <<2, 0, 0>>,
            <<1, 2, Junk>>, <<1, 2, 3, 4>>, <<1, 2, MaxU32 + 1>>}
MCTexts == [parts : MCParts, pre : MCPre \cup {None}]
=============================================================================
