---------------------------- MODULE HuffmanTable ----------------------------
(***************************************************************************)
(* The generated tables of hpack/huffman/table.rs, entry by entry.         *)
(***************************************************************************)
EXTENDS Integers, Sequences

(* Number of bits and code of every byte, and of EOS at the end. *)
ENCODE_TABLE == <<
    <<13,8184>>, <<23,8388568>>, <<28,268435426>>, <<28,268435427>>,
    <<28,268435428>>, <<28,268435429>>, <<28,268435430>>, <<28,268435431>>,
    <<28,268435432>>, <<24,16777194>>, <<30,1073741820>>, <<28,268435433>>,
    <<28,268435434>>, <<30,1073741821>>, <<28,268435435>>, <<28,268435436>>,
    <<28,268435437>>, <<28,268435438>>, <<28,268435439>>, <<28,268435440>>,
    <<28,268435441>>, <<28,268435442>>, <<30,1073741822>>, <<28,268435443>>,
    <<28,268435444>>, <<28,268435445>>, <<28,268435446>>, <<28,268435447>>,
    <<28,268435448>>, <<28,268435449>>, <<28,268435450>>, <<28,268435451>>,
    <<6,20>>, <<10,1016>>, <<10,1017>>, <<12,4090>>, <<13,8185>>, <<6,21>>,
    <<8,248>>, <<11,2042>>, <<10,1018>>, <<10,1019>>, <<8,249>>, <<11,2043>>,
    <<8,250>>, <<6,22>>, <<6,23>>, <<6,24>>, <<5,0>>, <<5,1>>, <<5,2>>,
    <<6,25>>, <<6,26>>, <<6,27>>, <<6,28>>, <<6,29>>, <<6,30>>, <<6,31>>,
    <<7,92>>, <<8,251>>, <<15,32764>>, <<6,32>>, <<12,4091>>, <<10,1020>>,
    <<13,8186>>, <<6,33>>, <<7,93>>, <<7,94>>, <<7,95>>, <<7,96>>, <<7,97>>,
    <<7,98>>, <<7,99>>, <<7,100>>, <<7,101>>, <<7,102>>, <<7,103>>, <<7,104>>,
    <<7,105>>, <<7,106>>, <<7,107>>, <<7,108>>, <<7,109>>, <<7,110>>,
    <<7,111>>, <<7,112>>, <<7,113>>, <<7,114>>, <<8,252>>, <<7,115>>,
    <<8,253>>, <<13,8187>>, <<19,524272>>, <<13,8188>>, <<14,16380>>, <<6,34>>,
    <<15,32765>>, <<5,3>>, <<6,35>>, <<5,4>>, <<6,36>>, <<5,5>>, <<6,37>>,
    <<6,38>>, <<6,39>>, <<5,6>>, <<7,116>>, <<7,117>>, <<6,40>>, <<6,41>>,
    <<6,42>>, <<5,7>>, <<6,43>>, <<7,118>>, <<6,44>>, <<5,8>>, <<5,9>>,
    <<6,45>>, <<7,119>>, <<7,120>>, <<7,121>>, <<7,122>>, <<7,123>>,
    <<15,32766>>, <<11,2044>>, <<14,16381>>, <<13,8189>>, <<28,268435452>>,
    <<20,1048550>>, <<22,4194258>>, <<20,1048551>>, <<20,1048552>>,
    <<22,4194259>>, <<22,4194260>>, <<22,4194261>>, <<23,8388569>>,
    <<22,4194262>>, <<23,8388570>>, <<23,8388571>>, <<23,8388572>>,
    <<23,8388573>>, <<23,8388574>>, <<24,16777195>>, <<23,8388575>>,
    <<24,16777196>>, <<24,16777197>>, <<22,4194263>>, <<23,8388576>>,
    <<24,16777198>>, <<23,8388577>>, <<23,8388578>>, <<23,8388579>>,
    <<23,8388580>>, <<21,2097116>>, <<22,4194264>>, <<23,8388581>>,
    <<22,4194265>>, <<23,8388582>>, <<23,8388583>>, <<24,16777199>>,
    <<22,4194266>>, <<21,2097117>>, <<20,1048553>>, <<22,4194267>>,
    <<22,4194268>>, <<23,8388584>>, <<23,8388585>>, <<21,2097118>>,
    <<23,8388586>>, <<22,4194269>>, <<22,4194270>>, <<24,16777200>>,
    <<21,2097119>>, <<22,4194271>>, <<23,8388587>>, <<23,8388588>>,
    <<21,2097120>>, <<21,2097121>>, <<22,4194272>>, <<21,2097122>>,
    <<23,8388589>>, <<22,4194273>>, <<23,8388590>>, <<23,8388591>>,
    <<20,1048554>>, <<22,4194274>>, <<22,4194275>>, <<22,4194276>>,
    <<23,8388592>>, <<22,4194277>>, <<22,4194278>>, <<23,8388593>>,
    <<26,67108832>>, <<26,67108833>>, <<20,1048555>>, <<19,524273>>,
    <<22,4194279>>, <<23,8388594>>, <<22,4194280>>, <<25,33554412>>,
    <<26,67108834>>, <<26,67108835>>, <<26,67108836>>, <<27,134217694>>,
    <<27,134217695>>, <<26,67108837>>, <<24,16777201>>, <<25,33554413>>,
    <<19,524274>>, <<21,2097123>>, <<26,67108838>>, <<27,134217696>>,
    <<27,134217697>>, <<26,67108839>>, <<27,134217698>>, <<24,16777202>>,
    <<21,2097124>>, <<21,2097125>>, <<26,67108840>>, <<26,67108841>>,
    <<28,268435453>>, <<27,134217699>>, <<27,134217700>>, <<27,134217701>>,
    <<20,1048556>>, <<24,16777203>>, <<20,1048557>>, <<21,2097126>>,
    <<22,4194281>>, <<21,2097127>>, <<21,2097128>>, <<23,8388595>>,
    <<22,4194282>>, <<22,4194283>>, <<25,33554414>>, <<25,33554415>>,
    <<24,16777204>>, <<24,16777205>>, <<26,67108842>>, <<23,8388596>>,
    <<26,67108843>>, <<27,134217702>>, <<26,67108844>>, <<26,67108845>>,
    <<27,134217703>>, <<27,134217704>>, <<27,134217705>>, <<27,134217706>>,
    <<27,134217707>>, <<28,268435454>>, <<27,134217708>>, <<27,134217709>>,
    <<27,134217710>>, <<27,134217711>>, <<27,134217712>>, <<26,67108846>>,
    <<30,1073741823>> >>

EOS == 256

(* Flags of a row of DECODE_TABLE. *)
MAYBE_EOS == 1
DECODED == 2
ERROR == 4

(* For each state, sixteen rows <<next state, byte, flags>>, one for every  *)
(* value of the next four bits.  State s is element s + 1.                  *)
DecodeRows == <<
    <<<<4,0,0>>, <<5,0,0>>, <<7,0,0>>, <<8,0,0>>, <<11,0,0>>, <<12,0,0>>, <<16,0,0>>, <<19,0,0>>,
      <<25,0,0>>, <<28,0,0>>, <<32,0,0>>, <<35,0,0>>, <<42,0,0>>, <<49,0,0>>, <<57,0,0>>, <<64,0,1>>>>,
    <<<<0,48,2>>, <<0,49,2>>, <<0,50,2>>, <<0,97,2>>, <<0,99,2>>, <<0,101,2>>, <<0,105,2>>, <<0,111,2>>,
      <<0,115,2>>, <<0,116,2>>, <<13,0,0>>, <<14,0,0>>, <<17,0,0>>, <<18,0,0>>, <<20,0,0>>, <<21,0,0>>>>,
    <<<<1,48,2>>, <<22,48,3>>, <<1,49,2>>, <<22,49,3>>, <<1,50,2>>, <<22,50,3>>, <<1,97,2>>, <<22,97,3>>,
      <<1,99,2>>, <<22,99,3>>, <<1,101,2>>, <<22,101,3>>, <<1,105,2>>, <<22,105,3>>, <<1,111,2>>, <<22,111,3>>>>,
    <<<<2,48,2>>, <<9,48,2>>, <<23,48,2>>, <<40,48,3>>, <<2,49,2>>, <<9,49,2>>, <<23,49,2>>, <<40,49,3>>,
      <<2,50,2>>, <<9,50,2>>, <<23,50,2>>, <<40,50,3>>, <<2,97,2>>, <<9,97,2>>, <<23,97,2>>, <<40,97,3>>>>,
    <<<<3,48,2>>, <<6,48,2>>, <<10,48,2>>, <<15,48,2>>, <<24,48,2>>, <<31,48,2>>, <<41,48,2>>, <<56,48,3>>,
      <<3,49,2>>, <<6,49,2>>, <<10,49,2>>, <<15,49,2>>, <<24,49,2>>, <<31,49,2>>, <<41,49,2>>, <<56,49,3>>>>,
    <<<<3,50,2>>, <<6,50,2>>, <<10,50,2>>, <<15,50,2>>, <<24,50,2>>, <<31,50,2>>, <<41,50,2>>, <<56,50,3>>,
      <<3,97,2>>, <<6,97,2>>, <<10,97,2>>, <<15,97,2>>, <<24,97,2>>, <<31,97,2>>, <<41,97,2>>, <<56,97,3>>>>,
    <<<<2,99,2>>, <<9,99,2>>, <<23,99,2>>, <<40,99,3>>, <<2,101,2>>, <<9,101,2>>, <<23,101,2>>, <<40,101,3>>,
      <<2,105,2>>, <<9,105,2>>, <<23,105,2>>, <<40,105,3>>, <<2,111,2>>, <<9,111,2>>, <<23,111,2>>, <<40,111,3>>>>,
    <<<<3,99,2>>, <<6,99,2>>, <<10,99,2>>, <<15,99,2>>, <<24,99,2>>, <<31,99,2>>, <<41,99,2>>, <<56,99,3>>,
      <<3,101,2>>, <<6,101,2>>, <<10,101,2>>, <<15,101,2>>, <<24,101,2>>, <<31,101,2>>, <<41,101,2>>, <<56,101,3>>>>,
    <<<<3,105,2>>, <<6,105,2>>, <<10,105,2>>, <<15,105,2>>, <<24,105,2>>, <<31,105,2>>, <<41,105,2>>, <<56,105,3>>,
      <<3,111,2>>, <<6,111,2>>, <<10,111,2>>, <<15,111,2>>, <<24,111,2>>, <<31,111,2>>, <<41,111,2>>, <<56,111,3>>>>,
    <<<<1,115,2>>, <<22,115,3>>, <<1,116,2>>, <<22,116,3>>, <<0,32,2>>, <<0,37,2>>, <<0,45,2>>, <<0,46,2>>,
      <<0,47,2>>, <<0,51,2>>, <<0,52,2>>, <<0,53,2>>, <<0,54,2>>, <<0,55,2>>, <<0,56,2>>, <<0,57,2>>>>,
    <<<<2,115,2>>, <<9,115,2>>, <<23,115,2>>, <<40,115,3>>, <<2,116,2>>, <<9,116,2>>, <<23,116,2>>, <<40,116,3>>,
      <<1,32,2>>, <<22,32,3>>, <<1,37,2>>, <<22,37,3>>, <<1,45,2>>, <<22,45,3>>, <<1,46,2>>, <<22,46,3>>>>,
    <<<<3,115,2>>, <<6,115,2>>, <<10,115,2>>, <<15,115,2>>, <<24,115,2>>, <<31,115,2>>, <<41,115,2>>, <<56,115,3>>,
      <<3,116,2>>, <<6,116,2>>, <<10,116,2>>, <<15,116,2>>, <<24,116,2>>, <<31,116,2>>, <<41,116,2>>, <<56,116,3>>>>,
    <<<<2,32,2>>, <<9,32,2>>, <<23,32,2>>, <<40,32,3>>, <<2,37,2>>, <<9,37,2>>, <<23,37,2>>, <<40,37,3>>,
      <<2,45,2>>, <<9,45,2>>, <<23,45,2>>, <<40,45,3>>, <<2,46,2>>, <<9,46,2>>, <<23,46,2>>, <<40,46,3>>>>,
    <<<<3,32,2>>, <<6,32,2>>, <<10,32,2>>, <<15,32,2>>, <<24,32,2>>, <<31,32,2>>, <<41,32,2>>, <<56,32,3>>,
      <<3,37,2>>, <<6,37,2>>, <<10,37,2>>, <<15,37,2>>, <<24,37,2>>, <<31,37,2>>, <<41,37,2>>, <<56,37,3>>>>,
    <<<<3,45,2>>, <<6,45,2>>, <<10,45,2>>, <<15,45,2>>, <<24,45,2>>, <<31,45,2>>, <<41,45,2>>, <<56,45,3>>,
      <<3,46,2>>, <<6,46,2>>, <<10,46,2>>, <<15,46,2>>, <<24,46,2>>, <<31,46,2>>, <<41,46,2>>, <<56,46,3>>>>,
    <<<<1,47,2>>, <<22,47,3>>, <<1,51,2>>, <<22,51,3>>, <<1,52,2>>, <<22,52,3>>, <<1,53,2>>, <<22,53,3>>,
      <<1,54,2>>, <<22,54,3>>, <<1,55,2>>, <<22,55,3>>, <<1,56,2>>, <<22,56,3>>, <<1,57,2>>, <<22,57,3>>>>,
    <<<<2,47,2>>, <<9,47,2>>, <<23,47,2>>, <<40,47,3>>, <<2,51,2>>, <<9,51,2>>, <<23,51,2>>, <<40,51,3>>,
      <<2,52,2>>, <<9,52,2>>, <<23,52,2>>, <<40,52,3>>, <<2,53,2>>, <<9,53,2>>, <<23,53,2>>, <<40,53,3>>>>,
    <<<<3,47,2>>, <<6,47,2>>, <<10,47,2>>, <<15,47,2>>, <<24,47,2>>, <<31,47,2>>, <<41,47,2>>, <<56,47,3>>,
      <<3,51,2>>, <<6,51,2>>, <<10,51,2>>, <<15,51,2>>, <<24,51,2>>, <<31,51,2>>, <<41,51,2>>, <<56,51,3>>>>,
    <<<<3,52,2>>, <<6,52,2>>, <<10,52,2>>, <<15,52,2>>, <<24,52,2>>, <<31,52,2>>, <<41,52,2>>, <<56,52,3>>,
      <<3,53,2>>, <<6,53,2>>, <<10,53,2>>, <<15,53,2>>, <<24,53,2>>, <<31,53,2>>, <<41,53,2>>, <<56,53,3>>>>,
    <<<<2,54,2>>, <<9,54,2>>, <<23,54,2>>, <<40,54,3>>, <<2,55,2>>, <<9,55,2>>, <<23,55,2>>, <<40,55,3>>,
      <<2,56,2>>, <<9,56,2>>, <<23,56,2>>, <<40,56,3>>, <<2,57,2>>, <<9,57,2>>, <<23,57,2>>, <<40,57,3>>>>,
    <<<<3,54,2>>, <<6,54,2>>, <<10,54,2>>, <<15,54,2>>, <<24,54,2>>, <<31,54,2>>, <<41,54,2>>, <<56,54,3>>,
      <<3,55,2>>, <<6,55,2>>, <<10,55,2>>, <<15,55,2>>, <<24,55,2>>, <<31,55,2>>, <<41,55,2>>, <<56,55,3>>>>,
    <<<<3,56,2>>, <<6,56,2>>, <<10,56,2>>, <<15,56,2>>, <<24,56,2>>, <<31,56,2>>, <<41,56,2>>, <<56,56,3>>,
      <<3,57,2>>, <<6,57,2>>, <<10,57,2>>, <<15,57,2>>, <<24,57,2>>, <<31,57,2>>, <<41,57,2>>, <<56,57,3>>>>,
    <<<<26,0,0>>, <<27,0,0>>, <<29,0,0>>, <<30,0,0>>, <<33,0,0>>, <<34,0,0>>, <<36,0,0>>, <<37,0,0>>,
      <<43,0,0>>, <<46,0,0>>, <<50,0,0>>, <<53,0,0>>, <<58,0,0>>, <<61,0,0>>, <<65,0,0>>, <<68,0,1>>>>,
    <<<<0,61,2>>, <<0,65,2>>, <<0,95,2>>, <<0,98,2>>, <<0,100,2>>, <<0,102,2>>, <<0,103,2>>, <<0,104,2>>,
      <<0,108,2>>, <<0,109,2>>, <<0,110,2>>, <<0,112,2>>, <<0,114,2>>, <<0,117,2>>, <<38,0,0>>, <<39,0,0>>>>,
    <<<<1,61,2>>, <<22,61,3>>, <<1,65,2>>, <<22,65,3>>, <<1,95,2>>, <<22,95,3>>, <<1,98,2>>, <<22,98,3>>,
      <<1,100,2>>, <<22,100,3>>, <<1,102,2>>, <<22,102,3>>, <<1,103,2>>, <<22,103,3>>, <<1,104,2>>, <<22,104,3>>>>,
    <<<<2,61,2>>, <<9,61,2>>, <<23,61,2>>, <<40,61,3>>, <<2,65,2>>, <<9,65,2>>, <<23,65,2>>, <<40,65,3>>,
      <<2,95,2>>, <<9,95,2>>, <<23,95,2>>, <<40,95,3>>, <<2,98,2>>, <<9,98,2>>, <<23,98,2>>, <<40,98,3>>>>,
    <<<<3,61,2>>, <<6,61,2>>, <<10,61,2>>, <<15,61,2>>, <<24,61,2>>, <<31,61,2>>, <<41,61,2>>, <<56,61,3>>,
      <<3,65,2>>, <<6,65,2>>, <<10,65,2>>, <<15,65,2>>, <<24,65,2>>, <<31,65,2>>, <<41,65,2>>, <<56,65,3>>>>,
    <<<<3,95,2>>, <<6,95,2>>, <<10,95,2>>, <<15,95,2>>, <<24,95,2>>, <<31,95,2>>, <<41,95,2>>, <<56,95,3>>,
      <<3,98,2>>, <<6,98,2>>, <<10,98,2>>, <<15,98,2>>, <<24,98,2>>, <<31,98,2>>, <<41,98,2>>, <<56,98,3>>>>,
    <<<<2,100,2>>, <<9,100,2>>, <<23,100,2>>, <<40,100,3>>, <<2,102,2>>, <<9,102,2>>, <<23,102,2>>, <<40,102,3>>,
      <<2,103,2>>, <<9,103,2>>, <<23,103,2>>, <<40,103,3>>, <<2,104,2>>, <<9,104,2>>, <<23,104,2>>, <<40,104,3>>>>,
    <<<<3,100,2>>, <<6,100,2>>, <<10,100,2>>, <<15,100,2>>, <<24,100,2>>, <<31,100,2>>, <<41,100,2>>, <<56,100,3>>,
      <<3,102,2>>, <<6,102,2>>, <<10,102,2>>, <<15,102,2>>, <<24,102,2>>, <<31,102,2>>, <<41,102,2>>, <<56,102,3>>>>,
    <<<<3,103,2>>, <<6,103,2>>, <<10,103,2>>, <<15,103,2>>, <<24,103,2>>, <<31,103,2>>, <<41,103,2>>, <<56,103,3>>,
      <<3,104,2>>, <<6,104,2>>, <<10,104,2>>, <<15,104,2>>, <<24,104,2>>, <<31,104,2>>, <<41,104,2>>, <<56,104,3>>>>,
    <<<<1,108,2>>, <<22,108,3>>, <<1,109,2>>, <<22,109,3>>, <<1,110,2>>, <<22,110,3>>, <<1,112,2>>, <<22,112,3>>,
      <<1,114,2>>, <<22,114,3>>, <<1,117,2>>, <<22,117,3>>, <<0,58,2>>, <<0,66,2>>, <<0,67,2>>, <<0,68,2>>>>,
    <<<<2,108,2>>, <<9,108,2>>, <<23,108,2>>, <<40,108,3>>, <<2,109,2>>, <<9,109,2>>, <<23,109,2>>, <<40,109,3>>,
      <<2,110,2>>, <<9,110,2>>, <<23,110,2>>, <<40,110,3>>, <<2,112,2>>, <<9,112,2>>, <<23,112,2>>, <<40,112,3>>>>,
    <<<<3,108,2>>, <<6,108,2>>, <<10,108,2>>, <<15,108,2>>, <<24,108,2>>, <<31,108,2>>, <<41,108,2>>, <<56,108,3>>,
      <<3,109,2>>, <<6,109,2>>, <<10,109,2>>, <<15,109,2>>, <<24,109,2>>, <<31,109,2>>, <<41,109,2>>, <<56,109,3>>>>,
    <<<<3,110,2>>, <<6,110,2>>, <<10,110,2>>, <<15,110,2>>, <<24,110,2>>, <<31,110,2>>, <<41,110,2>>, <<56,110,3>>,
      <<3,112,2>>, <<6,112,2>>, <<10,112,2>>, <<15,112,2>>, <<24,112,2>>, <<31,112,2>>, <<41,112,2>>, <<56,112,3>>>>,
    <<<<2,114,2>>, <<9,114,2>>, <<23,114,2>>, <<40,114,3>>, <<2,117,2>>, <<9,117,2>>, <<23,117,2>>, <<40,117,3>>,
      <<1,58,2>>, <<22,58,3>>, <<1,66,2>>, <<22,66,3>>, <<1,67,2>>, <<22,67,3>>, <<1,68,2>>, <<22,68,3>>>>,
    <<<<3,114,2>>, <<6,114,2>>, <<10,114,2>>, <<15,114,2>>, <<24,114,2>>, <<31,114,2>>, <<41,114,2>>, <<56,114,3>>,
      <<3,117,2>>, <<6,117,2>>, <<10,117,2>>, <<15,117,2>>, <<24,117,2>>, <<31,117,2>>, <<41,117,2>>, <<56,117,3>>>>,
    <<<<2,58,2>>, <<9,58,2>>, <<23,58,2>>, <<40,58,3>>, <<2,66,2>>, <<9,66,2>>, <<23,66,2>>, <<40,66,3>>,
      <<2,67,2>>, <<9,67,2>>, <<23,67,2>>, <<40,67,3>>, <<2,68,2>>, <<9,68,2>>, <<23,68,2>>, <<40,68,3>>>>,
    <<<<3,58,2>>, <<6,58,2>>, <<10,58,2>>, <<15,58,2>>, <<24,58,2>>, <<31,58,2>>, <<41,58,2>>, <<56,58,3>>,
      <<3,66,2>>, <<6,66,2>>, <<10,66,2>>, <<15,66,2>>, <<24,66,2>>, <<31,66,2>>, <<41,66,2>>, <<56,66,3>>>>,
    <<<<3,67,2>>, <<6,67,2>>, <<10,67,2>>, <<15,67,2>>, <<24,67,2>>, <<31,67,2>>, <<41,67,2>>, <<56,67,3>>,
      <<3,68,2>>, <<6,68,2>>, <<10,68,2>>, <<15,68,2>>, <<24,68,2>>, <<31,68,2>>, <<41,68,2>>, <<56,68,3>>>>,
    <<<<44,0,0>>, <<45,0,0>>, <<47,0,0>>, <<48,0,0>>, <<51,0,0>>, <<52,0,0>>, <<54,0,0>>, <<55,0,0>>,
      <<59,0,0>>, <<60,0,0>>, <<62,0,0>>, <<63,0,0>>, <<66,0,0>>, <<67,0,0>>, <<69,0,0>>, <<72,0,1>>>>,
    <<<<0,69,2>>, <<0,70,2>>, <<0,71,2>>, <<0,72,2>>, <<0,73,2>>, <<0,74,2>>, <<0,75,2>>, <<0,76,2>>,
      <<0,77,2>>, <<0,78,2>>, <<0,79,2>>, <<0,80,2>>, <<0,81,2>>, <<0,82,2>>, <<0,83,2>>, <<0,84,2>>>>,
    <<<<1,69,2>>, <<22,69,3>>, <<1,70,2>>, <<22,70,3>>, <<1,71,2>>, <<22,71,3>>, <<1,72,2>>, <<22,72,3>>,
      <<1,73,2>>, <<22,73,3>>, <<1,74,2>>, <<22,74,3>>, <<1,75,2>>, <<22,75,3>>, <<1,76,2>>, <<22,76,3>>>>,
    <<<<2,69,2>>, <<9,69,2>>, <<23,69,2>>, <<40,69,3>>, <<2,70,2>>, <<9,70,2>>, <<23,70,2>>, <<40,70,3>>,
      <<2,71,2>>, <<9,71,2>>, <<23,71,2>>, <<40,71,3>>, <<2,72,2>>, <<9,72,2>>, <<23,72,2>>, <<40,72,3>>>>,
    <<<<3,69,2>>, <<6,69,2>>, <<10,69,2>>, <<15,69,2>>, <<24,69,2>>, <<31,69,2>>, <<41,69,2>>, <<56,69,3>>,
      <<3,70,2>>, <<6,70,2>>, <<10,70,2>>, <<15,70,2>>, <<24,70,2>>, <<31,70,2>>, <<41,70,2>>, <<56,70,3>>>>,
    <<<<3,71,2>>, <<6,71,2>>, <<10,71,2>>, <<15,71,2>>, <<24,71,2>>, <<31,71,2>>, <<41,71,2>>, <<56,71,3>>,
      <<3,72,2>>, <<6,72,2>>, <<10,72,2>>, <<15,72,2>>, <<24,72,2>>, <<31,72,2>>, <<41,72,2>>, <<56,72,3>>>>,
    <<<<2,73,2>>, <<9,73,2>>, <<23,73,2>>, <<40,73,3>>, <<2,74,2>>, <<9,74,2>>, <<23,74,2>>, <<40,74,3>>,
      <<2,75,2>>, <<9,75,2>>, <<23,75,2>>, <<40,75,3>>, <<2,76,2>>, <<9,76,2>>, <<23,76,2>>, <<40,76,3>>>>,
    <<<<3,73,2>>, <<6,73,2>>, <<10,73,2>>, <<15,73,2>>, <<24,73,2>>, <<31,73,2>>, <<41,73,2>>, <<56,73,3>>,
      <<3,74,2>>, <<6,74,2>>, <<10,74,2>>, <<15,74,2>>, <<24,74,2>>, <<31,74,2>>, <<41,74,2>>, <<56,74,3>>>>,
    <<<<3,75,2>>, <<6,75,2>>, <<10,75,2>>, <<15,75,2>>, <<24,75,2>>, <<31,75,2>>, <<41,75,2>>, <<56,75,3>>,
      <<3,76,2>>, <<6,76,2>>, <<10,76,2>>, <<15,76,2>>, <<24,76,2>>, <<31,76,2>>, <<41,76,2>>, <<56,76,3>>>>,
    <<<<1,77,2>>, <<22,77,3>>, <<1,78,2>>, <<22,78,3>>, <<1,79,2>>, <<22,79,3>>, <<1,80,2>>, <<22,80,3>>,
      <<1,81,2>>, <<22,81,3>>, <<1,82,2>>, <<22,82,3>>, <<1,83,2>>, <<22,83,3>>, <<1,84,2>>, <<22,84,3>>>>,
    <<<<2,77,2>>, <<9,77,2>>, <<23,77,2>>, <<40,77,3>>, <<2,78,2>>, <<9,78,2>>, <<23,78,2>>, <<40,78,3>>,
      <<2,79,2>>, <<9,79,2>>, <<23,79,2>>, <<40,79,3>>, <<2,80,2>>, <<9,80,2>>, <<23,80,2>>, <<40,80,3>>>>,
    <<<<3,77,2>>, <<6,77,2>>, <<10,77,2>>, <<15,77,2>>, <<24,77,2>>, <<31,77,2>>, <<41,77,2>>, <<56,77,3>>,
      <<3,78,2>>, <<6,78,2>>, <<10,78,2>>, <<15,78,2>>, <<24,78,2>>, <<31,78,2>>, <<41,78,2>>, <<56,78,3>>>>,
    <<<<3,79,2>>, <<6,79,2>>, <<10,79,2>>, <<15,79,2>>, <<24,79,2>>, <<31,79,2>>, <<41,79,2>>, <<56,79,3>>,
      <<3,80,2>>, <<6,80,2>>, <<10,80,2>>, <<15,80,2>>, <<24,80,2>>, <<31,80,2>>, <<41,80,2>>, <<56,80,3>>>>,
    <<<<2,81,2>>, <<9,81,2>>, <<23,81,2>>, <<40,81,3>>, <<2,82,2>>, <<9,82,2>>, <<23,82,2>>, <<40,82,3>>,
      <<2,83,2>>, <<9,83,2>>, <<23,83,2>>, <<40,83,3>>, <<2,84,2>>, <<9,84,2>>, <<23,84,2>>, <<40,84,3>>>>,
    <<<<3,81,2>>, <<6,81,2>>, <<10,81,2>>, <<15,81,2>>, <<24,81,2>>, <<31,81,2>>, <<41,81,2>>, <<56,81,3>>,
      <<3,82,2>>, <<6,82,2>>, <<10,82,2>>, <<15,82,2>>, <<24,82,2>>, <<31,82,2>>, <<41,82,2>>, <<56,82,3>>>>,
    <<<<3,83,2>>, <<6,83,2>>, <<10,83,2>>, <<15,83,2>>, <<24,83,2>>, <<31,83,2>>, <<41,83,2>>, <<56,83,3>>,
      <<3,84,2>>, <<6,84,2>>, <<10,84,2>>, <<15,84,2>>, <<24,84,2>>, <<31,84,2>>, <<41,84,2>>, <<56,84,3>>>>,
    <<<<0,85,2>>, <<0,86,2>>, <<0,87,2>>, <<0,89,2>>, <<0,106,2>>, <<0,107,2>>, <<0,113,2>>, <<0,118,2>>,
      <<0,119,2>>, <<0,120,2>>, <<0,121,2>>, <<0,122,2>>, <<70,0,0>>, <<71,0,0>>, <<73,0,0>>, <<74,0,1>>>>,
    <<<<1,85,2>>, <<22,85,3>>, <<1,86,2>>, <<22,86,3>>, <<1,87,2>>, <<22,87,3>>, <<1,89,2>>, <<22,89,3>>,
      <<1,106,2>>, <<22,106,3>>, <<1,107,2>>, <<22,107,3>>, <<1,113,2>>, <<22,113,3>>, <<1,118,2>>, <<22,118,3>>>>,
    <<<<2,85,2>>, <<9,85,2>>, <<23,85,2>>, <<40,85,3>>, <<2,86,2>>, <<9,86,2>>, <<23,86,2>>, <<40,86,3>>,
      <<2,87,2>>, <<9,87,2>>, <<23,87,2>>, <<40,87,3>>, <<2,89,2>>, <<9,89,2>>, <<23,89,2>>, <<40,89,3>>>>,
    <<<<3,85,2>>, <<6,85,2>>, <<10,85,2>>, <<15,85,2>>, <<24,85,2>>, <<31,85,2>>, <<41,85,2>>, <<56,85,3>>,
      <<3,86,2>>, <<6,86,2>>, <<10,86,2>>, <<15,86,2>>, <<24,86,2>>, <<31,86,2>>, <<41,86,2>>, <<56,86,3>>>>,
    <<<<3,87,2>>, <<6,87,2>>, <<10,87,2>>, <<15,87,2>>, <<24,87,2>>, <<31,87,2>>, <<41,87,2>>, <<56,87,3>>,
      <<3,89,2>>, <<6,89,2>>, <<10,89,2>>, <<15,89,2>>, <<24,89,2>>, <<31,89,2>>, <<41,89,2>>, <<56,89,3>>>>,
    <<<<2,106,2>>, <<9,106,2>>, <<23,106,2>>, <<40,106,3>>, <<2,107,2>>, <<9,107,2>>, <<23,107,2>>, <<40,107,3>>,
      <<2,113,2>>, <<9,113,2>>, <<23,113,2>>, <<40,113,3>>, <<2,118,2>>, <<9,118,2>>, <<23,118,2>>, <<40,118,3>>>>,
    <<<<3,106,2>>, <<6,106,2>>, <<10,106,2>>, <<15,106,2>>, <<24,106,2>>, <<31,106,2>>, <<41,106,2>>, <<56,106,3>>,
      <<3,107,2>>, <<6,107,2>>, <<10,107,2>>, <<15,107,2>>, <<24,107,2>>, <<31,107,2>>, <<41,107,2>>, <<56,107,3>>>>,
    <<<<3,113,2>>, <<6,113,2>>, <<10,113,2>>, <<15,113,2>>, <<24,113,2>>, <<31,113,2>>, <<41,113,2>>, <<56,113,3>>,
      <<3,118,2>>, <<6,118,2>>, <<10,118,2>>, <<15,118,2>>, <<24,118,2>>, <<31,118,2>>, <<41,118,2>>, <<56,118,3>>>>,
    <<<<1,119,2>>, <<22,119,3>>, <<1,120,2>>, <<22,120,3>>, <<1,121,2>>, <<22,121,3>>, <<1,122,2>>, <<22,122,3>>,
      <<0,38,2>>, <<0,42,2>>, <<0,44,2>>, <<0,59,2>>, <<0,88,2>>, <<0,90,2>>, <<75,0,0>>, <<78,0,0>>>>,
    <<<<2,119,2>>, <<9,119,2>>, <<23,119,2>>, <<40,119,3>>, <<2,120,2>>, <<9,120,2>>, <<23,120,2>>, <<40,120,3>>,
      <<2,121,2>>, <<9,121,2>>, <<23,121,2>>, <<40,121,3>>, <<2,122,2>>, <<9,122,2>>, <<23,122,2>>, <<40,122,3>>>>,
    <<<<3,119,2>>, <<6,119,2>>, <<10,119,2>>, <<15,119,2>>, <<24,119,2>>, <<31,119,2>>, <<41,119,2>>, <<56,119,3>>,
      <<3,120,2>>, <<6,120,2>>, <<10,120,2>>, <<15,120,2>>, <<24,120,2>>, <<31,120,2>>, <<41,120,2>>, <<56,120,3>>>>,
    <<<<3,121,2>>, <<6,121,2>>, <<10,121,2>>, <<15,121,2>>, <<24,121,2>>, <<31,121,2>>, <<41,121,2>>, <<56,121,3>>,
      <<3,122,2>>, <<6,122,2>>, <<10,122,2>>, <<15,122,2>>, <<24,122,2>>, <<31,122,2>>, <<41,122,2>>, <<56,122,3>>>>,
    <<<<1,38,2>>, <<22,38,3>>, <<1,42,2>>, <<22,42,3>>, <<1,44,2>>, <<22,44,3>>, <<1,59,2>>, <<22,59,3>>,
      <<1,88,2>>, <<22,88,3>>, <<1,90,2>>, <<22,90,3>>, <<76,0,0>>, <<77,0,0>>, <<79,0,0>>, <<81,0,0>>>>,
    <<<<2,38,2>>, <<9,38,2>>, <<23,38,2>>, <<40,38,3>>, <<2,42,2>>, <<9,42,2>>, <<23,42,2>>, <<40,42,3>>,
      <<2,44,2>>, <<9,44,2>>, <<23,44,2>>, <<40,44,3>>, <<2,59,2>>, <<9,59,2>>, <<23,59,2>>, <<40,59,3>>>>,
    <<<<3,38,2>>, <<6,38,2>>, <<10,38,2>>, <<15,38,2>>, <<24,38,2>>, <<31,38,2>>, <<41,38,2>>, <<56,38,3>>,
      <<3,42,2>>, <<6,42,2>>, <<10,42,2>>, <<15,42,2>>, <<24,42,2>>, <<31,42,2>>, <<41,42,2>>, <<56,42,3>>>>,
    <<<<3,44,2>>, <<6,44,2>>, <<10,44,2>>, <<15,44,2>>, <<24,44,2>>, <<31,44,2>>, <<41,44,2>>, <<56,44,3>>,
      <<3,59,2>>, <<6,59,2>>, <<10,59,2>>, <<15,59,2>>, <<24,59,2>>, <<31,59,2>>, <<41,59,2>>, <<56,59,3>>>>,
    <<<<2,88,2>>, <<9,88,2>>, <<23,88,2>>, <<40,88,3>>, <<2,90,2>>, <<9,90,2>>, <<23,90,2>>, <<40,90,3>>,
      <<0,33,2>>, <<0,34,2>>, <<0,40,2>>, <<0,41,2>>, <<0,63,2>>, <<80,0,0>>, <<82,0,0>>, <<84,0,0>>>>,
    <<<<3,88,2>>, <<6,88,2>>, <<10,88,2>>, <<15,88,2>>, <<24,88,2>>, <<31,88,2>>, <<41,88,2>>, <<56,88,3>>,
      <<3,90,2>>, <<6,90,2>>, <<10,90,2>>, <<15,90,2>>, <<24,90,2>>, <<31,90,2>>, <<41,90,2>>, <<56,90,3>>>>,
    <<<<1,33,2>>, <<22,33,3>>, <<1,34,2>>, <<22,34,3>>, <<1,40,2>>, <<22,40,3>>, <<1,41,2>>, <<22,41,3>>,
      <<1,63,2>>, <<22,63,3>>, <<0,39,2>>, <<0,43,2>>, <<0,124,2>>, <<83,0,0>>, <<85,0,0>>, <<88,0,0>>>>,
    <<<<2,33,2>>, <<9,33,2>>, <<23,33,2>>, <<40,33,3>>, <<2,34,2>>, <<9,34,2>>, <<23,34,2>>, <<40,34,3>>,
      <<2,40,2>>, <<9,40,2>>, <<23,40,2>>, <<40,40,3>>, <<2,41,2>>, <<9,41,2>>, <<23,41,2>>, <<40,41,3>>>>,
    <<<<3,33,2>>, <<6,33,2>>, <<10,33,2>>, <<15,33,2>>, <<24,33,2>>, <<31,33,2>>, <<41,33,2>>, <<56,33,3>>,
      <<3,34,2>>, <<6,34,2>>, <<10,34,2>>, <<15,34,2>>, <<24,34,2>>, <<31,34,2>>, <<41,34,2>>, <<56,34,3>>>>,
    <<<<3,40,2>>, <<6,40,2>>, <<10,40,2>>, <<15,40,2>>, <<24,40,2>>, <<31,40,2>>, <<41,40,2>>, <<56,40,3>>,
      <<3,41,2>>, <<6,41,2>>, <<10,41,2>>, <<15,41,2>>, <<24,41,2>>, <<31,41,2>>, <<41,41,2>>, <<56,41,3>>>>,
    <<<<2,63,2>>, <<9,63,2>>, <<23,63,2>>, <<40,63,3>>, <<1,39,2>>, <<22,39,3>>, <<1,43,2>>, <<22,43,3>>,
      <<1,124,2>>, <<22,124,3>>, <<0,35,2>>, <<0,62,2>>, <<86,0,0>>, <<87,0,0>>, <<89,0,0>>, <<90,0,0>>>>,
    <<<<3,63,2>>, <<6,63,2>>, <<10,63,2>>, <<15,63,2>>, <<24,63,2>>, <<31,63,2>>, <<41,63,2>>, <<56,63,3>>,
      <<2,39,2>>, <<9,39,2>>, <<23,39,2>>, <<40,39,3>>, <<2,43,2>>, <<9,43,2>>, <<23,43,2>>, <<40,43,3>>>>,
    <<<<3,39,2>>, <<6,39,2>>, <<10,39,2>>, <<15,39,2>>, <<24,39,2>>, <<31,39,2>>, <<41,39,2>>, <<56,39,3>>,
      <<3,43,2>>, <<6,43,2>>, <<10,43,2>>, <<15,43,2>>, <<24,43,2>>, <<31,43,2>>, <<41,43,2>>, <<56,43,3>>>>,
    <<<<2,124,2>>, <<9,124,2>>, <<23,124,2>>, <<40,124,3>>, <<1,35,2>>, <<22,35,3>>, <<1,62,2>>, <<22,62,3>>,
      <<0,0,2>>, <<0,36,2>>, <<0,64,2>>, <<0,91,2>>, <<0,93,2>>, <<0,126,2>>, <<91,0,0>>, <<92,0,0>>>>,
    <<<<3,124,2>>, <<6,124,2>>, <<10,124,2>>, <<15,124,2>>, <<24,124,2>>, <<31,124,2>>, <<41,124,2>>, <<56,124,3>>,
      <<2,35,2>>, <<9,35,2>>, <<23,35,2>>, <<40,35,3>>, <<2,62,2>>, <<9,62,2>>, <<23,62,2>>, <<40,62,3>>>>,
    <<<<3,35,2>>, <<6,35,2>>, <<10,35,2>>, <<15,35,2>>, <<24,35,2>>, <<31,35,2>>, <<41,35,2>>, <<56,35,3>>,
      <<3,62,2>>, <<6,62,2>>, <<10,62,2>>, <<15,62,2>>, <<24,62,2>>, <<31,62,2>>, <<41,62,2>>, <<56,62,3>>>>,
    <<<<1,0,2>>, <<22,0,3>>, <<1,36,2>>, <<22,36,3>>, <<1,64,2>>, <<22,64,3>>, <<1,91,2>>, <<22,91,3>>,
      <<1,93,2>>, <<22,93,3>>, <<1,126,2>>, <<22,126,3>>, <<0,94,2>>, <<0,125,2>>, <<93,0,0>>, <<94,0,0>>>>,
    <<<<2,0,2>>, <<9,0,2>>, <<23,0,2>>, <<40,0,3>>, <<2,36,2>>, <<9,36,2>>, <<23,36,2>>, <<40,36,3>>,
      <<2,64,2>>, <<9,64,2>>, <<23,64,2>>, <<40,64,3>>, <<2,91,2>>, <<9,91,2>>, <<23,91,2>>, <<40,91,3>>>>,
    <<<<3,0,2>>, <<6,0,2>>, <<10,0,2>>, <<15,0,2>>, <<24,0,2>>, <<31,0,2>>, <<41,0,2>>, <<56,0,3>>,
      <<3,36,2>>, <<6,36,2>>, <<10,36,2>>, <<15,36,2>>, <<24,36,2>>, <<31,36,2>>, <<41,36,2>>, <<56,36,3>>>>,
    <<<<3,64,2>>, <<6,64,2>>, <<10,64,2>>, <<15,64,2>>, <<24,64,2>>, <<31,64,2>>, <<41,64,2>>, <<56,64,3>>,
      <<3,91,2>>, <<6,91,2>>, <<10,91,2>>, <<15,91,2>>, <<24,91,2>>, <<31,91,2>>, <<41,91,2>>, <<56,91,3>>>>,
    <<<<2,93,2>>, <<9,93,2>>, <<23,93,2>>, <<40,93,3>>, <<2,126,2>>, <<9,126,2>>, <<23,126,2>>, <<40,126,3>>,
      <<1,94,2>>, <<22,94,3>>, <<1,125,2>>, <<22,125,3>>, <<0,60,2>>, <<0,96,2>>, <<0,123,2>>, <<95,0,0>>>>,
    <<<<3,93,2>>, <<6,93,2>>, <<10,93,2>>, <<15,93,2>>, <<24,93,2>>, <<31,93,2>>, <<41,93,2>>, <<56,93,3>>,
      <<3,126,2>>, <<6,126,2>>, <<10,126,2>>, <<15,126,2>>, <<24,126,2>>, <<31,126,2>>, <<41,126,2>>, <<56,126,3>>>>,
    <<<<2,94,2>>, <<9,94,2>>, <<23,94,2>>, <<40,94,3>>, <<2,125,2>>, <<9,125,2>>, <<23,125,2>>, <<40,125,3>>,
      <<1,60,2>>, <<22,60,3>>, <<1,96,2>>, <<22,96,3>>, <<1,123,2>>, <<22,123,3>>, <<96,0,0>>, <<110,0,0>>>>,
    <<<<3,94,2>>, <<6,94,2>>, <<10,94,2>>, <<15,94,2>>, <<24,94,2>>, <<31,94,2>>, <<41,94,2>>, <<56,94,3>>,
      <<3,125,2>>, <<6,125,2>>, <<10,125,2>>, <<15,125,2>>, <<24,125,2>>, <<31,125,2>>, <<41,125,2>>, <<56,125,3>>>>,
    <<<<2,60,2>>, <<9,60,2>>, <<23,60,2>>, <<40,60,3>>, <<2,96,2>>, <<9,96,2>>, <<23,96,2>>, <<40,96,3>>,
      <<2,123,2>>, <<9,123,2>>, <<23,123,2>>, <<40,123,3>>, <<97,0,0>>, <<101,0,0>>, <<111,0,0>>, <<133,0,0>>>>,
    <<<<3,60,2>>, <<6,60,2>>, <<10,60,2>>, <<15,60,2>>, <<24,60,2>>, <<31,60,2>>, <<41,60,2>>, <<56,60,3>>,
      <<3,96,2>>, <<6,96,2>>, <<10,96,2>>, <<15,96,2>>, <<24,96,2>>, <<31,96,2>>, <<41,96,2>>, <<56,96,3>>>>,
    <<<<3,123,2>>, <<6,123,2>>, <<10,123,2>>, <<15,123,2>>, <<24,123,2>>, <<31,123,2>>, <<41,123,2>>, <<56,123,3>>,
      <<98,0,0>>, <<99,0,0>>, <<102,0,0>>, <<105,0,0>>, <<112,0,0>>, <<119,0,0>>, <<134,0,0>>, <<153,0,0>>>>,
    <<<<0,92,2>>, <<0,195,2>>, <<0,208,2>>, <<100,0,0>>, <<103,0,0>>, <<104,0,0>>, <<106,0,0>>, <<107,0,0>>,
      <<113,0,0>>, <<116,0,0>>, <<120,0,0>>, <<126,0,0>>, <<135,0,0>>, <<142,0,0>>, <<154,0,0>>, <<169,0,0>>>>,
    <<<<1,92,2>>, <<22,92,3>>, <<1,195,2>>, <<22,195,3>>, <<1,208,2>>, <<22,208,3>>, <<0,128,2>>, <<0,130,2>>,
      <<0,131,2>>, <<0,162,2>>, <<0,184,2>>, <<0,194,2>>, <<0,224,2>>, <<0,226,2>>, <<108,0,0>>, <<109,0,0>>>>,
    <<<<2,92,2>>, <<9,92,2>>, <<23,92,2>>, <<40,92,3>>, <<2,195,2>>, <<9,195,2>>, <<23,195,2>>, <<40,195,3>>,
      <<2,208,2>>, <<9,208,2>>, <<23,208,2>>, <<40,208,3>>, <<1,128,2>>, <<22,128,3>>, <<1,130,2>>, <<22,130,3>>>>,
    <<<<3,92,2>>, <<6,92,2>>, <<10,92,2>>, <<15,92,2>>, <<24,92,2>>, <<31,92,2>>, <<41,92,2>>, <<56,92,3>>,
      <<3,195,2>>, <<6,195,2>>, <<10,195,2>>, <<15,195,2>>, <<24,195,2>>, <<31,195,2>>, <<41,195,2>>, <<56,195,3>>>>,
    <<<<3,208,2>>, <<6,208,2>>, <<10,208,2>>, <<15,208,2>>, <<24,208,2>>, <<31,208,2>>, <<41,208,2>>, <<56,208,3>>,
      <<2,128,2>>, <<9,128,2>>, <<23,128,2>>, <<40,128,3>>, <<2,130,2>>, <<9,130,2>>, <<23,130,2>>, <<40,130,3>>>>,
    <<<<3,128,2>>, <<6,128,2>>, <<10,128,2>>, <<15,128,2>>, <<24,128,2>>, <<31,128,2>>, <<41,128,2>>, <<56,128,3>>,
      <<3,130,2>>, <<6,130,2>>, <<10,130,2>>, <<15,130,2>>, <<24,130,2>>, <<31,130,2>>, <<41,130,2>>, <<56,130,3>>>>,
    <<<<1,131,2>>, <<22,131,3>>, <<1,162,2>>, <<22,162,3>>, <<1,184,2>>, <<22,184,3>>, <<1,194,2>>, <<22,194,3>>,
      <<1,224,2>>, <<22,224,3>>, <<1,226,2>>, <<22,226,3>>, <<0,153,2>>, <<0,161,2>>, <<0,167,2>>, <<0,172,2>>>>,
    <<<<2,131,2>>, <<9,131,2>>, <<23,131,2>>, <<40,131,3>>, <<2,162,2>>, <<9,162,2>>, <<23,162,2>>, <<40,162,3>>,
      <<2,184,2>>, <<9,184,2>>, <<23,184,2>>, <<40,184,3>>, <<2,194,2>>, <<9,194,2>>, <<23,194,2>>, <<40,194,3>>>>,
    <<<<3,131,2>>, <<6,131,2>>, <<10,131,2>>, <<15,131,2>>, <<24,131,2>>, <<31,131,2>>, <<41,131,2>>, <<56,131,3>>,
      <<3,162,2>>, <<6,162,2>>, <<10,162,2>>, <<15,162,2>>, <<24,162,2>>, <<31,162,2>>, <<41,162,2>>, <<56,162,3>>>>,
    <<<<3,184,2>>, <<6,184,2>>, <<10,184,2>>, <<15,184,2>>, <<24,184,2>>, <<31,184,2>>, <<41,184,2>>, <<56,184,3>>,
      <<3,194,2>>, <<6,194,2>>, <<10,194,2>>, <<15,194,2>>, <<24,194,2>>, <<31,194,2>>, <<41,194,2>>, <<56,194,3>>>>,
    <<<<2,224,2>>, <<9,224,2>>, <<23,224,2>>, <<40,224,3>>, <<2,226,2>>, <<9,226,2>>, <<23,226,2>>, <<40,226,3>>,
      <<1,153,2>>, <<22,153,3>>, <<1,161,2>>, <<22,161,3>>, <<1,167,2>>, <<22,167,3>>, <<1,172,2>>, <<22,172,3>>>>,
    <<<<3,224,2>>, <<6,224,2>>, <<10,224,2>>, <<15,224,2>>, <<24,224,2>>, <<31,224,2>>, <<41,224,2>>, <<56,224,3>>,
      <<3,226,2>>, <<6,226,2>>, <<10,226,2>>, <<15,226,2>>, <<24,226,2>>, <<31,226,2>>, <<41,226,2>>, <<56,226,3>>>>,
    <<<<2,153,2>>, <<9,153,2>>, <<23,153,2>>, <<40,153,3>>, <<2,161,2>>, <<9,161,2>>, <<23,161,2>>, <<40,161,3>>,
      <<2,167,2>>, <<9,167,2>>, <<23,167,2>>, <<40,167,3>>, <<2,172,2>>, <<9,172,2>>, <<23,172,2>>, <<40,172,3>>>>,
    <<<<3,153,2>>, <<6,153,2>>, <<10,153,2>>, <<15,153,2>>, <<24,153,2>>, <<31,153,2>>, <<41,153,2>>, <<56,153,3>>,
      <<3,161,2>>, <<6,161,2>>, <<10,161,2>>, <<15,161,2>>, <<24,161,2>>, <<31,161,2>>, <<41,161,2>>, <<56,161,3>>>>,
    <<<<3,167,2>>, <<6,167,2>>, <<10,167,2>>, <<15,167,2>>, <<24,167,2>>, <<31,167,2>>, <<41,167,2>>, <<56,167,3>>,
      <<3,172,2>>, <<6,172,2>>, <<10,172,2>>, <<15,172,2>>, <<24,172,2>>, <<31,172,2>>, <<41,172,2>>, <<56,172,3>>>>,
    <<<<114,0,0>>, <<115,0,0>>, <<117,0,0>>, <<118,0,0>>, <<121,0,0>>, <<123,0,0>>, <<127,0,0>>, <<130,0,0>>,
      <<136,0,0>>, <<139,0,0>>, <<143,0,0>>, <<146,0,0>>, <<155,0,0>>, <<162,0,0>>, <<170,0,0>>, <<180,0,0>>>>,
    <<<<0,176,2>>, <<0,177,2>>, <<0,179,2>>, <<0,209,2>>, <<0,216,2>>, <<0,217,2>>, <<0,227,2>>, <<0,229,2>>,
      <<0,230,2>>, <<122,0,0>>, <<124,0,0>>, <<125,0,0>>, <<128,0,0>>, <<129,0,0>>, <<131,0,0>>, <<132,0,0>>>>,
    <<<<1,176,2>>, <<22,176,3>>, <<1,177,2>>, <<22,177,3>>, <<1,179,2>>, <<22,179,3>>, <<1,209,2>>, <<22,209,3>>,
      <<1,216,2>>, <<22,216,3>>, <<1,217,2>>, <<22,217,3>>, <<1,227,2>>, <<22,227,3>>, <<1,229,2>>, <<22,229,3>>>>,
    <<<<2,176,2>>, <<9,176,2>>, <<23,176,2>>, <<40,176,3>>, <<2,177,2>>, <<9,177,2>>, <<23,177,2>>, <<40,177,3>>,
      <<2,179,2>>, <<9,179,2>>, <<23,179,2>>, <<40,179,3>>, <<2,209,2>>, <<9,209,2>>, <<23,209,2>>, <<40,209,3>>>>,
    <<<<3,176,2>>, <<6,176,2>>, <<10,176,2>>, <<15,176,2>>, <<24,176,2>>, <<31,176,2>>, <<41,176,2>>, <<56,176,3>>,
      <<3,177,2>>, <<6,177,2>>, <<10,177,2>>, <<15,177,2>>, <<24,177,2>>, <<31,177,2>>, <<41,177,2>>, <<56,177,3>>>>,
    <<<<3,179,2>>, <<6,179,2>>, <<10,179,2>>, <<15,179,2>>, <<24,179,2>>, <<31,179,2>>, <<41,179,2>>, <<56,179,3>>,
      <<3,209,2>>, <<6,209,2>>, <<10,209,2>>, <<15,209,2>>, <<24,209,2>>, <<31,209,2>>, <<41,209,2>>, <<56,209,3>>>>,
    <<<<2,216,2>>, <<9,216,2>>, <<23,216,2>>, <<40,216,3>>, <<2,217,2>>, <<9,217,2>>, <<23,217,2>>, <<40,217,3>>,
      <<2,227,2>>, <<9,227,2>>, <<23,227,2>>, <<40,227,3>>, <<2,229,2>>, <<9,229,2>>, <<23,229,2>>, <<40,229,3>>>>,
    <<<<3,216,2>>, <<6,216,2>>, <<10,216,2>>, <<15,216,2>>, <<24,216,2>>, <<31,216,2>>, <<41,216,2>>, <<56,216,3>>,
      <<3,217,2>>, <<6,217,2>>, <<10,217,2>>, <<15,217,2>>, <<24,217,2>>, <<31,217,2>>, <<41,217,2>>, <<56,217,3>>>>,
    <<<<3,227,2>>, <<6,227,2>>, <<10,227,2>>, <<15,227,2>>, <<24,227,2>>, <<31,227,2>>, <<41,227,2>>, <<56,227,3>>,
      <<3,229,2>>, <<6,229,2>>, <<10,229,2>>, <<15,229,2>>, <<24,229,2>>, <<31,229,2>>, <<41,229,2>>, <<56,229,3>>>>,
    <<<<1,230,2>>, <<22,230,3>>, <<0,129,2>>, <<0,132,2>>, <<0,133,2>>, <<0,134,2>>, <<0,136,2>>, <<0,146,2>>,
      <<0,154,2>>, <<0,156,2>>, <<0,160,2>>, <<0,163,2>>, <<0,164,2>>, <<0,169,2>>, <<0,170,2>>, <<0,173,2>>>>,
    <<<<2,230,2>>, <<9,230,2>>, <<23,230,2>>, <<40,230,3>>, <<1,129,2>>, <<22,129,3>>, <<1,132,2>>, <<22,132,3>>,
      <<1,133,2>>, <<22,133,3>>, <<1,134,2>>, <<22,134,3>>, <<1,136,2>>, <<22,136,3>>, <<1,146,2>>, <<22,146,3>>>>,
    <<<<3,230,2>>, <<6,230,2>>, <<10,230,2>>, <<15,230,2>>, <<24,230,2>>, <<31,230,2>>, <<41,230,2>>, <<56,230,3>>,
      <<2,129,2>>, <<9,129,2>>, <<23,129,2>>, <<40,129,3>>, <<2,132,2>>, <<9,132,2>>, <<23,132,2>>, <<40,132,3>>>>,
    <<<<3,129,2>>, <<6,129,2>>, <<10,129,2>>, <<15,129,2>>, <<24,129,2>>, <<31,129,2>>, <<41,129,2>>, <<56,129,3>>,
      <<3,132,2>>, <<6,132,2>>, <<10,132,2>>, <<15,132,2>>, <<24,132,2>>, <<31,132,2>>, <<41,132,2>>, <<56,132,3>>>>,
    <<<<2,133,2>>, <<9,133,2>>, <<23,133,2>>, <<40,133,3>>, <<2,134,2>>, <<9,134,2>>, <<23,134,2>>, <<40,134,3>>,
      <<2,136,2>>, <<9,136,2>>, <<23,136,2>>, <<40,136,3>>, <<2,146,2>>, <<9,146,2>>, <<23,146,2>>, <<40,146,3>>>>,
    <<<<3,133,2>>, <<6,133,2>>, <<10,133,2>>, <<15,133,2>>, <<24,133,2>>, <<31,133,2>>, <<41,133,2>>, <<56,133,3>>,
      <<3,134,2>>, <<6,134,2>>, <<10,134,2>>, <<15,134,2>>, <<24,134,2>>, <<31,134,2>>, <<41,134,2>>, <<56,134,3>>>>,
    <<<<3,136,2>>, <<6,136,2>>, <<10,136,2>>, <<15,136,2>>, <<24,136,2>>, <<31,136,2>>, <<41,136,2>>, <<56,136,3>>,
      <<3,146,2>>, <<6,146,2>>, <<10,146,2>>, <<15,146,2>>, <<24,146,2>>, <<31,146,2>>, <<41,146,2>>, <<56,146,3>>>>,
    <<<<1,154,2>>, <<22,154,3>>, <<1,156,2>>, <<22,156,3>>, <<1,160,2>>, <<22,160,3>>, <<1,163,2>>, <<22,163,3>>,
      <<1,164,2>>, <<22,164,3>>, <<1,169,2>>, <<22,169,3>>, <<1,170,2>>, <<22,170,3>>, <<1,173,2>>, <<22,173,3>>>>,
    <<<<2,154,2>>, <<9,154,2>>, <<23,154,2>>, <<40,154,3>>, <<2,156,2>>, <<9,156,2>>, <<23,156,2>>, <<40,156,3>>,
      <<2,160,2>>, <<9,160,2>>, <<23,160,2>>, <<40,160,3>>, <<2,163,2>>, <<9,163,2>>, <<23,163,2>>, <<40,163,3>>>>,
    <<<<3,154,2>>, <<6,154,2>>, <<10,154,2>>, <<15,154,2>>, <<24,154,2>>, <<31,154,2>>, <<41,154,2>>, <<56,154,3>>,
      <<3,156,2>>, <<6,156,2>>, <<10,156,2>>, <<15,156,2>>, <<24,156,2>>, <<31,156,2>>, <<41,156,2>>, <<56,156,3>>>>,
    <<<<3,160,2>>, <<6,160,2>>, <<10,160,2>>, <<15,160,2>>, <<24,160,2>>, <<31,160,2>>, <<41,160,2>>, <<56,160,3>>,
      <<3,163,2>>, <<6,163,2>>, <<10,163,2>>, <<15,163,2>>, <<24,163,2>>, <<31,163,2>>, <<41,163,2>>, <<56,163,3>>>>,
    <<<<2,164,2>>, <<9,164,2>>, <<23,164,2>>, <<40,164,3>>, <<2,169,2>>, <<9,169,2>>, <<23,169,2>>, <<40,169,3>>,
      <<2,170,2>>, <<9,170,2>>, <<23,170,2>>, <<40,170,3>>, <<2,173,2>>, <<9,173,2>>, <<23,173,2>>, <<40,173,3>>>>,
    <<<<3,164,2>>, <<6,164,2>>, <<10,164,2>>, <<15,164,2>>, <<24,164,2>>, <<31,164,2>>, <<41,164,2>>, <<56,164,3>>,
      <<3,169,2>>, <<6,169,2>>, <<10,169,2>>, <<15,169,2>>, <<24,169,2>>, <<31,169,2>>, <<41,169,2>>, <<56,169,3>>>>,
    <<<<3,170,2>>, <<6,170,2>>, <<10,170,2>>, <<15,170,2>>, <<24,170,2>>, <<31,170,2>>, <<41,170,2>>, <<56,170,3>>,
      <<3,173,2>>, <<6,173,2>>, <<10,173,2>>, <<15,173,2>>, <<24,173,2>>, <<31,173,2>>, <<41,173,2>>, <<56,173,3>>>>,
    <<<<137,0,0>>, <<138,0,0>>, <<140,0,0>>, <<141,0,0>>, <<144,0,0>>, <<145,0,0>>, <<147,0,0>>, <<150,0,0>>,
      <<156,0,0>>, <<159,0,0>>, <<163,0,0>>, <<166,0,0>>, <<171,0,0>>, <<174,0,0>>, <<181,0,0>>, <<190,0,0>>>>,
    <<<<0,178,2>>, <<0,181,2>>, <<0,185,2>>, <<0,186,2>>, <<0,187,2>>, <<0,189,2>>, <<0,190,2>>, <<0,196,2>>,
      <<0,198,2>>, <<0,228,2>>, <<0,232,2>>, <<0,233,2>>, <<148,0,0>>, <<149,0,0>>, <<151,0,0>>, <<152,0,0>>>>,
    <<<<1,178,2>>, <<22,178,3>>, <<1,181,2>>, <<22,181,3>>, <<1,185,2>>, <<22,185,3>>, <<1,186,2>>, <<22,186,3>>,
      <<1,187,2>>, <<22,187,3>>, <<1,189,2>>, <<22,189,3>>, <<1,190,2>>, <<22,190,3>>, <<1,196,2>>, <<22,196,3>>>>,
    <<<<2,178,2>>, <<9,178,2>>, <<23,178,2>>, <<40,178,3>>, <<2,181,2>>, <<9,181,2>>, <<23,181,2>>, <<40,181,3>>,
      <<2,185,2>>, <<9,185,2>>, <<23,185,2>>, <<40,185,3>>, <<2,186,2>>, <<9,186,2>>, <<23,186,2>>, <<40,186,3>>>>,
    <<<<3,178,2>>, <<6,178,2>>, <<10,178,2>>, <<15,178,2>>, <<24,178,2>>, <<31,178,2>>, <<41,178,2>>, <<56,178,3>>,
      <<3,181,2>>, <<6,181,2>>, <<10,181,2>>, <<15,181,2>>, <<24,181,2>>, <<31,181,2>>, <<41,181,2>>, <<56,181,3>>>>,
    <<<<3,185,2>>, <<6,185,2>>, <<10,185,2>>, <<15,185,2>>, <<24,185,2>>, <<31,185,2>>, <<41,185,2>>, <<56,185,3>>,
      <<3,186,2>>, <<6,186,2>>, <<10,186,2>>, <<15,186,2>>, <<24,186,2>>, <<31,186,2>>, <<41,186,2>>, <<56,186,3>>>>,
    <<<<2,187,2>>, <<9,187,2>>, <<23,187,2>>, <<40,187,3>>, <<2,189,2>>, <<9,189,2>>, <<23,189,2>>, <<40,189,3>>,
      <<2,190,2>>, <<9,190,2>>, <<23,190,2>>, <<40,190,3>>, <<2,196,2>>, <<9,196,2>>, <<23,196,2>>, <<40,196,3>>>>,
    <<<<3,187,2>>, <<6,187,2>>, <<10,187,2>>, <<15,187,2>>, <<24,187,2>>, <<31,187,2>>, <<41,187,2>>, <<56,187,3>>,
      <<3,189,2>>, <<6,189,2>>, <<10,189,2>>, <<15,189,2>>, <<24,189,2>>, <<31,189,2>>, <<41,189,2>>, <<56,189,3>>>>,
    <<<<3,190,2>>, <<6,190,2>>, <<10,190,2>>, <<15,190,2>>, <<24,190,2>>, <<31,190,2>>, <<41,190,2>>, <<56,190,3>>,
      <<3,196,2>>, <<6,196,2>>, <<10,196,2>>, <<15,196,2>>, <<24,196,2>>, <<31,196,2>>, <<41,196,2>>, <<56,196,3>>>>,
    <<<<1,198,2>>, <<22,198,3>>, <<1,228,2>>, <<22,228,3>>, <<1,232,2>>, <<22,232,3>>, <<1,233,2>>, <<22,233,3>>,
      <<0,1,2>>, <<0,135,2>>, <<0,137,2>>, <<0,138,2>>, <<0,139,2>>, <<0,140,2>>, <<0,141,2>>, <<0,143,2>>>>,
    <<<<2,198,2>>, <<9,198,2>>, <<23,198,2>>, <<40,198,3>>, <<2,228,2>>, <<9,228,2>>, <<23,228,2>>, <<40,228,3>>,
      <<2,232,2>>, <<9,232,2>>, <<23,232,2>>, <<40,232,3>>, <<2,233,2>>, <<9,233,2>>, <<23,233,2>>, <<40,233,3>>>>,
    <<<<3,198,2>>, <<6,198,2>>, <<10,198,2>>, <<15,198,2>>, <<24,198,2>>, <<31,198,2>>, <<41,198,2>>, <<56,198,3>>,
      <<3,228,2>>, <<6,228,2>>, <<10,228,2>>, <<15,228,2>>, <<24,228,2>>, <<31,228,2>>, <<41,228,2>>, <<56,228,3>>>>,
    <<<<3,232,2>>, <<6,232,2>>, <<10,232,2>>, <<15,232,2>>, <<24,232,2>>, <<31,232,2>>, <<41,232,2>>, <<56,232,3>>,
      <<3,233,2>>, <<6,233,2>>, <<10,233,2>>, <<15,233,2>>, <<24,233,2>>, <<31,233,2>>, <<41,233,2>>, <<56,233,3>>>>,
    <<<<1,1,2>>, <<22,1,3>>, <<1,135,2>>, <<22,135,3>>, <<1,137,2>>, <<22,137,3>>, <<1,138,2>>, <<22,138,3>>,
      <<1,139,2>>, <<22,139,3>>, <<1,140,2>>, <<22,140,3>>, <<1,141,2>>, <<22,141,3>>, <<1,143,2>>, <<22,143,3>>>>,
    <<<<2,1,2>>, <<9,1,2>>, <<23,1,2>>, <<40,1,3>>, <<2,135,2>>, <<9,135,2>>, <<23,135,2>>, <<40,135,3>>,
      <<2,137,2>>, <<9,137,2>>, <<23,137,2>>, <<40,137,3>>, <<2,138,2>>, <<9,138,2>>, <<23,138,2>>, <<40,138,3>>>>,
    <<<<3,1,2>>, <<6,1,2>>, <<10,1,2>>, <<15,1,2>>, <<24,1,2>>, <<31,1,2>>, <<41,1,2>>, <<56,1,3>>,
      <<3,135,2>>, <<6,135,2>>, <<10,135,2>>, <<15,135,2>>, <<24,135,2>>, <<31,135,2>>, <<41,135,2>>, <<56,135,3>>>>,
    <<<<3,137,2>>, <<6,137,2>>, <<10,137,2>>, <<15,137,2>>, <<24,137,2>>, <<31,137,2>>, <<41,137,2>>, <<56,137,3>>,
      <<3,138,2>>, <<6,138,2>>, <<10,138,2>>, <<15,138,2>>, <<24,138,2>>, <<31,138,2>>, <<41,138,2>>, <<56,138,3>>>>,
    <<<<2,139,2>>, <<9,139,2>>, <<23,139,2>>, <<40,139,3>>, <<2,140,2>>, <<9,140,2>>, <<23,140,2>>, <<40,140,3>>,
      <<2,141,2>>, <<9,141,2>>, <<23,141,2>>, <<40,141,3>>, <<2,143,2>>, <<9,143,2>>, <<23,143,2>>, <<40,143,3>>>>,
    <<<<3,139,2>>, <<6,139,2>>, <<10,139,2>>, <<15,139,2>>, <<24,139,2>>, <<31,139,2>>, <<41,139,2>>, <<56,139,3>>,
      <<3,140,2>>, <<6,140,2>>, <<10,140,2>>, <<15,140,2>>, <<24,140,2>>, <<31,140,2>>, <<41,140,2>>, <<56,140,3>>>>,
    <<<<3,141,2>>, <<6,141,2>>, <<10,141,2>>, <<15,141,2>>, <<24,141,2>>, <<31,141,2>>, <<41,141,2>>, <<56,141,3>>,
      <<3,143,2>>, <<6,143,2>>, <<10,143,2>>, <<15,143,2>>, <<24,143,2>>, <<31,143,2>>, <<41,143,2>>, <<56,143,3>>>>,
    <<<<157,0,0>>, <<158,0,0>>, <<160,0,0>>, <<161,0,0>>, <<164,0,0>>, <<165,0,0>>, <<167,0,0>>, <<168,0,0>>,
      <<172,0,0>>, <<173,0,0>>, <<175,0,0>>, <<177,0,0>>, <<182,0,0>>, <<185,0,0>>, <<191,0,0>>, <<207,0,0>>>>,
    <<<<0,147,2>>, <<0,149,2>>, <<0,150,2>>, <<0,151,2>>, <<0,152,2>>, <<0,155,2>>, <<0,157,2>>, <<0,158,2>>,
      <<0,165,2>>, <<0,166,2>>, <<0,168,2>>, <<0,174,2>>, <<0,175,2>>, <<0,180,2>>, <<0,182,2>>, <<0,183,2>>>>,
    <<<<1,147,2>>, <<22,147,3>>, <<1,149,2>>, <<22,149,3>>, <<1,150,2>>, <<22,150,3>>, <<1,151,2>>, <<22,151,3>>,
      <<1,152,2>>, <<22,152,3>>, <<1,155,2>>, <<22,155,3>>, <<1,157,2>>, <<22,157,3>>, <<1,158,2>>, <<22,158,3>>>>,
    <<<<2,147,2>>, <<9,147,2>>, <<23,147,2>>, <<40,147,3>>, <<2,149,2>>, <<9,149,2>>, <<23,149,2>>, <<40,149,3>>,
      <<2,150,2>>, <<9,150,2>>, <<23,150,2>>, <<40,150,3>>, <<2,151,2>>, <<9,151,2>>, <<23,151,2>>, <<40,151,3>>>>,
    <<<<3,147,2>>, <<6,147,2>>, <<10,147,2>>, <<15,147,2>>, <<24,147,2>>, <<31,147,2>>, <<41,147,2>>, <<56,147,3>>,
      <<3,149,2>>, <<6,149,2>>, <<10,149,2>>, <<15,149,2>>, <<24,149,2>>, <<31,149,2>>, <<41,149,2>>, <<56,149,3>>>>,
    <<<<3,150,2>>, <<6,150,2>>, <<10,150,2>>, <<15,150,2>>, <<24,150,2>>, <<31,150,2>>, <<41,150,2>>, <<56,150,3>>,
      <<3,151,2>>, <<6,151,2>>, <<10,151,2>>, <<15,151,2>>, <<24,151,2>>, <<31,151,2>>, <<41,151,2>>, <<56,151,3>>>>,
    <<<<2,152,2>>, <<9,152,2>>, <<23,152,2>>, <<40,152,3>>, <<2,155,2>>, <<9,155,2>>, <<23,155,2>>, <<40,155,3>>,
      <<2,157,2>>, <<9,157,2>>, <<23,157,2>>, <<40,157,3>>, <<2,158,2>>, <<9,158,2>>, <<23,158,2>>, <<40,158,3>>>>,
    <<<<3,152,2>>, <<6,152,2>>, <<10,152,2>>, <<15,152,2>>, <<24,152,2>>, <<31,152,2>>, <<41,152,2>>, <<56,152,3>>,
      <<3,155,2>>, <<6,155,2>>, <<10,155,2>>, <<15,155,2>>, <<24,155,2>>, <<31,155,2>>, <<41,155,2>>, <<56,155,3>>>>,
    <<<<3,157,2>>, <<6,157,2>>, <<10,157,2>>, <<15,157,2>>, <<24,157,2>>, <<31,157,2>>, <<41,157,2>>, <<56,157,3>>,
      <<3,158,2>>, <<6,158,2>>, <<10,158,2>>, <<15,158,2>>, <<24,158,2>>, <<31,158,2>>, <<41,158,2>>, <<56,158,3>>>>,
    <<<<1,165,2>>, <<22,165,3>>, <<1,166,2>>, <<22,166,3>>, <<1,168,2>>, <<22,168,3>>, <<1,174,2>>, <<22,174,3>>,
      <<1,175,2>>, <<22,175,3>>, <<1,180,2>>, <<22,180,3>>, <<1,182,2>>, <<22,182,3>>, <<1,183,2>>, <<22,183,3>>>>,
    <<<<2,165,2>>, <<9,165,2>>, <<23,165,2>>, <<40,165,3>>, <<2,166,2>>, <<9,166,2>>, <<23,166,2>>, <<40,166,3>>,
      <<2,168,2>>, <<9,168,2>>, <<23,168,2>>, <<40,168,3>>, <<2,174,2>>, <<9,174,2>>, <<23,174,2>>, <<40,174,3>>>>,
    <<<<3,165,2>>, <<6,165,2>>, <<10,165,2>>, <<15,165,2>>, <<24,165,2>>, <<31,165,2>>, <<41,165,2>>, <<56,165,3>>,
      <<3,166,2>>, <<6,166,2>>, <<10,166,2>>, <<15,166,2>>, <<24,166,2>>, <<31,166,2>>, <<41,166,2>>, <<56,166,3>>>>,
    <<<<3,168,2>>, <<6,168,2>>, <<10,168,2>>, <<15,168,2>>, <<24,168,2>>, <<31,168,2>>, <<41,168,2>>, <<56,168,3>>,
      <<3,174,2>>, <<6,174,2>>, <<10,174,2>>, <<15,174,2>>, <<24,174,2>>, <<31,174,2>>, <<41,174,2>>, <<56,174,3>>>>,
    <<<<2,175,2>>, <<9,175,2>>, <<23,175,2>>, <<40,175,3>>, <<2,180,2>>, <<9,180,2>>, <<23,180,2>>, <<40,180,3>>,
      <<2,182,2>>, <<9,182,2>>, <<23,182,2>>, <<40,182,3>>, <<2,183,2>>, <<9,183,2>>, <<23,183,2>>, <<40,183,3>>>>,
    <<<<3,175,2>>, <<6,175,2>>, <<10,175,2>>, <<15,175,2>>, <<24,175,2>>, <<31,175,2>>, <<41,175,2>>, <<56,175,3>>,
      <<3,180,2>>, <<6,180,2>>, <<10,180,2>>, <<15,180,2>>, <<24,180,2>>, <<31,180,2>>, <<41,180,2>>, <<56,180,3>>>>,
    <<<<3,182,2>>, <<6,182,2>>, <<10,182,2>>, <<15,182,2>>, <<24,182,2>>, <<31,182,2>>, <<41,182,2>>, <<56,182,3>>,
      <<3,183,2>>, <<6,183,2>>, <<10,183,2>>, <<15,183,2>>, <<24,183,2>>, <<31,183,2>>, <<41,183,2>>, <<56,183,3>>>>,
    <<<<0,188,2>>, <<0,191,2>>, <<0,197,2>>, <<0,231,2>>, <<0,239,2>>, <<176,0,0>>, <<178,0,0>>, <<179,0,0>>,
      <<183,0,0>>, <<184,0,0>>, <<186,0,0>>, <<187,0,0>>, <<192,0,0>>, <<199,0,0>>, <<208,0,0>>, <<223,0,0>>>>,
    <<<<1,188,2>>, <<22,188,3>>, <<1,191,2>>, <<22,191,3>>, <<1,197,2>>, <<22,197,3>>, <<1,231,2>>, <<22,231,3>>,
      <<1,239,2>>, <<22,239,3>>, <<0,9,2>>, <<0,142,2>>, <<0,144,2>>, <<0,145,2>>, <<0,148,2>>, <<0,159,2>>>>,
    <<<<2,188,2>>, <<9,188,2>>, <<23,188,2>>, <<40,188,3>>, <<2,191,2>>, <<9,191,2>>, <<23,191,2>>, <<40,191,3>>,
      <<2,197,2>>, <<9,197,2>>, <<23,197,2>>, <<40,197,3>>, <<2,231,2>>, <<9,231,2>>, <<23,231,2>>, <<40,231,3>>>>,
    <<<<3,188,2>>, <<6,188,2>>, <<10,188,2>>, <<15,188,2>>, <<24,188,2>>, <<31,188,2>>, <<41,188,2>>, <<56,188,3>>,
      <<3,191,2>>, <<6,191,2>>, <<10,191,2>>, <<15,191,2>>, <<24,191,2>>, <<31,191,2>>, <<41,191,2>>, <<56,191,3>>>>,
    <<<<3,197,2>>, <<6,197,2>>, <<10,197,2>>, <<15,197,2>>, <<24,197,2>>, <<31,197,2>>, <<41,197,2>>, <<56,197,3>>,
      <<3,231,2>>, <<6,231,2>>, <<10,231,2>>, <<15,231,2>>, <<24,231,2>>, <<31,231,2>>, <<41,231,2>>, <<56,231,3>>>>,
    <<<<2,239,2>>, <<9,239,2>>, <<23,239,2>>, <<40,239,3>>, <<1,9,2>>, <<22,9,3>>, <<1,142,2>>, <<22,142,3>>,
      <<1,144,2>>, <<22,144,3>>, <<1,145,2>>, <<22,145,3>>, <<1,148,2>>, <<22,148,3>>, <<1,159,2>>, <<22,159,3>>>>,
    <<<<3,239,2>>, <<6,239,2>>, <<10,239,2>>, <<15,239,2>>, <<24,239,2>>, <<31,239,2>>, <<41,239,2>>, <<56,239,3>>,
      <<2,9,2>>, <<9,9,2>>, <<23,9,2>>, <<40,9,3>>, <<2,142,2>>, <<9,142,2>>, <<23,142,2>>, <<40,142,3>>>>,
    <<<<3,9,2>>, <<6,9,2>>, <<10,9,2>>, <<15,9,2>>, <<24,9,2>>, <<31,9,2>>, <<41,9,2>>, <<56,9,3>>,
      <<3,142,2>>, <<6,142,2>>, <<10,142,2>>, <<15,142,2>>, <<24,142,2>>, <<31,142,2>>, <<41,142,2>>, <<56,142,3>>>>,
    <<<<2,144,2>>, <<9,144,2>>, <<23,144,2>>, <<40,144,3>>, <<2,145,2>>, <<9,145,2>>, <<23,145,2>>, <<40,145,3>>,
      <<2,148,2>>, <<9,148,2>>, <<23,148,2>>, <<40,148,3>>, <<2,159,2>>, <<9,159,2>>, <<23,159,2>>, <<40,159,3>>>>,
    <<<<3,144,2>>, <<6,144,2>>, <<10,144,2>>, <<15,144,2>>, <<24,144,2>>, <<31,144,2>>, <<41,144,2>>, <<56,144,3>>,
      <<3,145,2>>, <<6,145,2>>, <<10,145,2>>, <<15,145,2>>, <<24,145,2>>, <<31,145,2>>, <<41,145,2>>, <<56,145,3>>>>,
    <<<<3,148,2>>, <<6,148,2>>, <<10,148,2>>, <<15,148,2>>, <<24,148,2>>, <<31,148,2>>, <<41,148,2>>, <<56,148,3>>,
      <<3,159,2>>, <<6,159,2>>, <<10,159,2>>, <<15,159,2>>, <<24,159,2>>, <<31,159,2>>, <<41,159,2>>, <<56,159,3>>>>,
    <<<<0,171,2>>, <<0,206,2>>, <<0,215,2>>, <<0,225,2>>, <<0,236,2>>, <<0,237,2>>, <<188,0,0>>, <<189,0,0>>,
      <<193,0,0>>, <<196,0,0>>, <<200,0,0>>, <<203,0,0>>, <<209,0,0>>, <<216,0,0>>, <<224,0,0>>, <<238,0,0>>>>,
    <<<<1,171,2>>, <<22,171,3>>, <<1,206,2>>, <<22,206,3>>, <<1,215,2>>, <<22,215,3>>, <<1,225,2>>, <<22,225,3>>,
      <<1,236,2>>, <<22,236,3>>, <<1,237,2>>, <<22,237,3>>, <<0,199,2>>, <<0,207,2>>, <<0,234,2>>, <<0,235,2>>>>,
    <<<<2,171,2>>, <<9,171,2>>, <<23,171,2>>, <<40,171,3>>, <<2,206,2>>, <<9,206,2>>, <<23,206,2>>, <<40,206,3>>,
      <<2,215,2>>, <<9,215,2>>, <<23,215,2>>, <<40,215,3>>, <<2,225,2>>, <<9,225,2>>, <<23,225,2>>, <<40,225,3>>>>,
    <<<<3,171,2>>, <<6,171,2>>, <<10,171,2>>, <<15,171,2>>, <<24,171,2>>, <<31,171,2>>, <<41,171,2>>, <<56,171,3>>,
      <<3,206,2>>, <<6,206,2>>, <<10,206,2>>, <<15,206,2>>, <<24,206,2>>, <<31,206,2>>, <<41,206,2>>, <<56,206,3>>>>,
    <<<<3,215,2>>, <<6,215,2>>, <<10,215,2>>, <<15,215,2>>, <<24,215,2>>, <<31,215,2>>, <<41,215,2>>, <<56,215,3>>,
      <<3,225,2>>, <<6,225,2>>, <<10,225,2>>, <<15,225,2>>, <<24,225,2>>, <<31,225,2>>, <<41,225,2>>, <<56,225,3>>>>,
    <<<<2,236,2>>, <<9,236,2>>, <<23,236,2>>, <<40,236,3>>, <<2,237,2>>, <<9,237,2>>, <<23,237,2>>, <<40,237,3>>,
      <<1,199,2>>, <<22,199,3>>, <<1,207,2>>, <<22,207,3>>, <<1,234,2>>, <<22,234,3>>, <<1,235,2>>, <<22,235,3>>>>,
    <<<<3,236,2>>, <<6,236,2>>, <<10,236,2>>, <<15,236,2>>, <<24,236,2>>, <<31,236,2>>, <<41,236,2>>, <<56,236,3>>,
      <<3,237,2>>, <<6,237,2>>, <<10,237,2>>, <<15,237,2>>, <<24,237,2>>, <<31,237,2>>, <<41,237,2>>, <<56,237,3>>>>,
    <<<<2,199,2>>, <<9,199,2>>, <<23,199,2>>, <<40,199,3>>, <<2,207,2>>, <<9,207,2>>, <<23,207,2>>, <<40,207,3>>,
      <<2,234,2>>, <<9,234,2>>, <<23,234,2>>, <<40,234,3>>, <<2,235,2>>, <<9,235,2>>, <<23,235,2>>, <<40,235,3>>>>,
    <<<<3,199,2>>, <<6,199,2>>, <<10,199,2>>, <<15,199,2>>, <<24,199,2>>, <<31,199,2>>, <<41,199,2>>, <<56,199,3>>,
      <<3,207,2>>, <<6,207,2>>, <<10,207,2>>, <<15,207,2>>, <<24,207,2>>, <<31,207,2>>, <<41,207,2>>, <<56,207,3>>>>,
    <<<<3,234,2>>, <<6,234,2>>, <<10,234,2>>, <<15,234,2>>, <<24,234,2>>, <<31,234,2>>, <<41,234,2>>, <<56,234,3>>,
      <<3,235,2>>, <<6,235,2>>, <<10,235,2>>, <<15,235,2>>, <<24,235,2>>, <<31,235,2>>, <<41,235,2>>, <<56,235,3>>>>,
    <<<<194,0,0>>, <<195,0,0>>, <<197,0,0>>, <<198,0,0>>, <<201,0,0>>, <<202,0,0>>, <<204,0,0>>, <<205,0,0>>,
      <<210,0,0>>, <<213,0,0>>, <<217,0,0>>, <<220,0,0>>, <<225,0,0>>, <<231,0,0>>, <<239,0,0>>, <<246,0,0>>>>,
    <<<<0,192,2>>, <<0,193,2>>, <<0,200,2>>, <<0,201,2>>, <<0,202,2>>, <<0,205,2>>, <<0,210,2>>, <<0,213,2>>,
      <<0,218,2>>, <<0,219,2>>, <<0,238,2>>, <<0,240,2>>, <<0,242,2>>, <<0,243,2>>, <<0,255,2>>, <<206,0,0>>>>,
    <<<<1,192,2>>, <<22,192,3>>, <<1,193,2>>, <<22,193,3>>, <<1,200,2>>, <<22,200,3>>, <<1,201,2>>, <<22,201,3>>,
      <<1,202,2>>, <<22,202,3>>, <<1,205,2>>, <<22,205,3>>, <<1,210,2>>, <<22,210,3>>, <<1,213,2>>, <<22,213,3>>>>,
    <<<<2,192,2>>, <<9,192,2>>, <<23,192,2>>, <<40,192,3>>, <<2,193,2>>, <<9,193,2>>, <<23,193,2>>, <<40,193,3>>,
      <<2,200,2>>, <<9,200,2>>, <<23,200,2>>, <<40,200,3>>, <<2,201,2>>, <<9,201,2>>, <<23,201,2>>, <<40,201,3>>>>,
    <<<<3,192,2>>, <<6,192,2>>, <<10,192,2>>, <<15,192,2>>, <<24,192,2>>, <<31,192,2>>, <<41,192,2>>, <<56,192,3>>,
      <<3,193,2>>, <<6,193,2>>, <<10,193,2>>, <<15,193,2>>, <<24,193,2>>, <<31,193,2>>, <<41,193,2>>, <<56,193,3>>>>,
    <<<<3,200,2>>, <<6,200,2>>, <<10,200,2>>, <<15,200,2>>, <<24,200,2>>, <<31,200,2>>, <<41,200,2>>, <<56,200,3>>,
      <<3,201,2>>, <<6,201,2>>, <<10,201,2>>, <<15,201,2>>, <<24,201,2>>, <<31,201,2>>, <<41,201,2>>, <<56,201,3>>>>,
    <<<<2,202,2>>, <<9,202,2>>, <<23,202,2>>, <<40,202,3>>, <<2,205,2>>, <<9,205,2>>, <<23,205,2>>, <<40,205,3>>,
      <<2,210,2>>, <<9,210,2>>, <<23,210,2>>, <<40,210,3>>, <<2,213,2>>, <<9,213,2>>, <<23,213,2>>, <<40,213,3>>>>,
    <<<<3,202,2>>, <<6,202,2>>, <<10,202,2>>, <<15,202,2>>, <<24,202,2>>, <<31,202,2>>, <<41,202,2>>, <<56,202,3>>,
      <<3,205,2>>, <<6,205,2>>, <<10,205,2>>, <<15,205,2>>, <<24,205,2>>, <<31,205,2>>, <<41,205,2>>, <<56,205,3>>>>,
    <<<<3,210,2>>, <<6,210,2>>, <<10,210,2>>, <<15,210,2>>, <<24,210,2>>, <<31,210,2>>, <<41,210,2>>, <<56,210,3>>,
      <<3,213,2>>, <<6,213,2>>, <<10,213,2>>, <<15,213,2>>, <<24,213,2>>, <<31,213,2>>, <<41,213,2>>, <<56,213,3>>>>,
    <<<<1,218,2>>, <<22,218,3>>, <<1,219,2>>, <<22,219,3>>, <<1,238,2>>, <<22,238,3>>, <<1,240,2>>, <<22,240,3>>,
      <<1,242,2>>, <<22,242,3>>, <<1,243,2>>, <<22,243,3>>, <<1,255,2>>, <<22,255,3>>, <<0,203,2>>, <<0,204,2>>>>,
    <<<<2,218,2>>, <<9,218,2>>, <<23,218,2>>, <<40,218,3>>, <<2,219,2>>, <<9,219,2>>, <<23,219,2>>, <<40,219,3>>,
      <<2,238,2>>, <<9,238,2>>, <<23,238,2>>, <<40,238,3>>, <<2,240,2>>, <<9,240,2>>, <<23,240,2>>, <<40,240,3>>>>,
    <<<<3,218,2>>, <<6,218,2>>, <<10,218,2>>, <<15,218,2>>, <<24,218,2>>, <<31,218,2>>, <<41,218,2>>, <<56,218,3>>,
      <<3,219,2>>, <<6,219,2>>, <<10,219,2>>, <<15,219,2>>, <<24,219,2>>, <<31,219,2>>, <<41,219,2>>, <<56,219,3>>>>,
    <<<<3,238,2>>, <<6,238,2>>, <<10,238,2>>, <<15,238,2>>, <<24,238,2>>, <<31,238,2>>, <<41,238,2>>, <<56,238,3>>,
      <<3,240,2>>, <<6,240,2>>, <<10,240,2>>, <<15,240,2>>, <<24,240,2>>, <<31,240,2>>, <<41,240,2>>, <<56,240,3>>>>,
    <<<<2,242,2>>, <<9,242,2>>, <<23,242,2>>, <<40,242,3>>, <<2,243,2>>, <<9,243,2>>, <<23,243,2>>, <<40,243,3>>,
      <<2,255,2>>, <<9,255,2>>, <<23,255,2>>, <<40,255,3>>, <<1,203,2>>, <<22,203,3>>, <<1,204,2>>, <<22,204,3>>>>,
    <<<<3,242,2>>, <<6,242,2>>, <<10,242,2>>, <<15,242,2>>, <<24,242,2>>, <<31,242,2>>, <<41,242,2>>, <<56,242,3>>,
      <<3,243,2>>, <<6,243,2>>, <<10,243,2>>, <<15,243,2>>, <<24,243,2>>, <<31,243,2>>, <<41,243,2>>, <<56,243,3>>>>,
    <<<<3,255,2>>, <<6,255,2>>, <<10,255,2>>, <<15,255,2>>, <<24,255,2>>, <<31,255,2>>, <<41,255,2>>, <<56,255,3>>,
      <<2,203,2>>, <<9,203,2>>, <<23,203,2>>, <<40,203,3>>, <<2,204,2>>, <<9,204,2>>, <<23,204,2>>, <<40,204,3>>>>,
    <<<<3,203,2>>, <<6,203,2>>, <<10,203,2>>, <<15,203,2>>, <<24,203,2>>, <<31,203,2>>, <<41,203,2>>, <<56,203,3>>,
      <<3,204,2>>, <<6,204,2>>, <<10,204,2>>, <<15,204,2>>, <<24,204,2>>, <<31,204,2>>, <<41,204,2>>, <<56,204,3>>>>,
    <<<<211,0,0>>, <<212,0,0>>, <<214,0,0>>, <<215,0,0>>, <<218,0,0>>, <<219,0,0>>, <<221,0,0>>, <<222,0,0>>,
      <<226,0,0>>, <<228,0,0>>, <<232,0,0>>, <<235,0,0>>, <<240,0,0>>, <<243,0,0>>, <<247,0,0>>, <<250,0,0>>>>,
    <<<<0,211,2>>, <<0,212,2>>, <<0,214,2>>, <<0,221,2>>, <<0,222,2>>, <<0,223,2>>, <<0,241,2>>, <<0,244,2>>,
      <<0,245,2>>, <<0,246,2>>, <<0,247,2>>, <<0,248,2>>, <<0,250,2>>, <<0,251,2>>, <<0,252,2>>, <<0,253,2>>>>,
    <<<<1,211,2>>, <<22,211,3>>, <<1,212,2>>, <<22,212,3>>, <<1,214,2>>, <<22,214,3>>, <<1,221,2>>, <<22,221,3>>,
      <<1,222,2>>, <<22,222,3>>, <<1,223,2>>, <<22,223,3>>, <<1,241,2>>, <<22,241,3>>, <<1,244,2>>, <<22,244,3>>>>,
    <<<<2,211,2>>, <<9,211,2>>, <<23,211,2>>, <<40,211,3>>, <<2,212,2>>, <<9,212,2>>, <<23,212,2>>, <<40,212,3>>,
      <<2,214,2>>, <<9,214,2>>, <<23,214,2>>, <<40,214,3>>, <<2,221,2>>, <<9,221,2>>, <<23,221,2>>, <<40,221,3>>>>,
    <<<<3,211,2>>, <<6,211,2>>, <<10,211,2>>, <<15,211,2>>, <<24,211,2>>, <<31,211,2>>, <<41,211,2>>, <<56,211,3>>,
      <<3,212,2>>, <<6,212,2>>, <<10,212,2>>, <<15,212,2>>, <<24,212,2>>, <<31,212,2>>, <<41,212,2>>, <<56,212,3>>>>,
    <<<<3,214,2>>, <<6,214,2>>, <<10,214,2>>, <<15,214,2>>, <<24,214,2>>, <<31,214,2>>, <<41,214,2>>, <<56,214,3>>,
      <<3,221,2>>, <<6,221,2>>, <<10,221,2>>, <<15,221,2>>, <<24,221,2>>, <<31,221,2>>, <<41,221,2>>, <<56,221,3>>>>,
    <<<<2,222,2>>, <<9,222,2>>, <<23,222,2>>, <<40,222,3>>, <<2,223,2>>, <<9,223,2>>, <<23,223,2>>, <<40,223,3>>,
      <<2,241,2>>, <<9,241,2>>, <<23,241,2>>, <<40,241,3>>, <<2,244,2>>, <<9,244,2>>, <<23,244,2>>, <<40,244,3>>>>,
    <<<<3,222,2>>, <<6,222,2>>, <<10,222,2>>, <<15,222,2>>, <<24,222,2>>, <<31,222,2>>, <<41,222,2>>, <<56,222,3>>,
      <<3,223,2>>, <<6,223,2>>, <<10,223,2>>, <<15,223,2>>, <<24,223,2>>, <<31,223,2>>, <<41,223,2>>, <<56,223,3>>>>,
    <<<<3,241,2>>, <<6,241,2>>, <<10,241,2>>, <<15,241,2>>, <<24,241,2>>, <<31,241,2>>, <<41,241,2>>, <<56,241,3>>,
      <<3,244,2>>, <<6,244,2>>, <<10,244,2>>, <<15,244,2>>, <<24,244,2>>, <<31,244,2>>, <<41,244,2>>, <<56,244,3>>>>,
    <<<<1,245,2>>, <<22,245,3>>, <<1,246,2>>, <<22,246,3>>, <<1,247,2>>, <<22,247,3>>, <<1,248,2>>, <<22,248,3>>,
      <<1,250,2>>, <<22,250,3>>, <<1,251,2>>, <<22,251,3>>, <<1,252,2>>, <<22,252,3>>, <<1,253,2>>, <<22,253,3>>>>,
    <<<<2,245,2>>, <<9,245,2>>, <<23,245,2>>, <<40,245,3>>, <<2,246,2>>, <<9,246,2>>, <<23,246,2>>, <<40,246,3>>,
      <<2,247,2>>, <<9,247,2>>, <<23,247,2>>, <<40,247,3>>, <<2,248,2>>, <<9,248,2>>, <<23,248,2>>, <<40,248,3>>>>,
    <<<<3,245,2>>, <<6,245,2>>, <<10,245,2>>, <<15,245,2>>, <<24,245,2>>, <<31,245,2>>, <<41,245,2>>, <<56,245,3>>,
      <<3,246,2>>, <<6,246,2>>, <<10,246,2>>, <<15,246,2>>, <<24,246,2>>, <<31,246,2>>, <<41,246,2>>, <<56,246,3>>>>,
    <<<<3,247,2>>, <<6,247,2>>, <<10,247,2>>, <<15,247,2>>, <<24,247,2>>, <<31,247,2>>, <<41,247,2>>, <<56,247,3>>,
      <<3,248,2>>, <<6,248,2>>, <<10,248,2>>, <<15,248,2>>, <<24,248,2>>, <<31,248,2>>, <<41,248,2>>, <<56,248,3>>>>,
    <<<<2,250,2>>, <<9,250,2>>, <<23,250,2>>, <<40,250,3>>, <<2,251,2>>, <<9,251,2>>, <<23,251,2>>, <<40,251,3>>,
      <<2,252,2>>, <<9,252,2>>, <<23,252,2>>, <<40,252,3>>, <<2,253,2>>, <<9,253,2>>, <<23,253,2>>, <<40,253,3>>>>,
    <<<<3,250,2>>, <<6,250,2>>, <<10,250,2>>, <<15,250,2>>, <<24,250,2>>, <<31,250,2>>, <<41,250,2>>, <<56,250,3>>,
      <<3,251,2>>, <<6,251,2>>, <<10,251,2>>, <<15,251,2>>, <<24,251,2>>, <<31,251,2>>, <<41,251,2>>, <<56,251,3>>>>,
    <<<<3,252,2>>, <<6,252,2>>, <<10,252,2>>, <<15,252,2>>, <<24,252,2>>, <<31,252,2>>, <<41,252,2>>, <<56,252,3>>,
      <<3,253,2>>, <<6,253,2>>, <<10,253,2>>, <<15,253,2>>, <<24,253,2>>, <<31,253,2>>, <<41,253,2>>, <<56,253,3>>>>,
    <<<<0,254,2>>, <<227,0,0>>, <<229,0,0>>, <<230,0,0>>, <<233,0,0>>, <<234,0,0>>, <<236,0,0>>, <<237,0,0>>,
      <<241,0,0>>, <<242,0,0>>, <<244,0,0>>, <<245,0,0>>, <<248,0,0>>, <<249,0,0>>, <<251,0,0>>, <<252,0,0>>>>,
    <<<<1,254,2>>, <<22,254,3>>, <<0,2,2>>, <<0,3,2>>, <<0,4,2>>, <<0,5,2>>, <<0,6,2>>, <<0,7,2>>,
      <<0,8,2>>, <<0,11,2>>, <<0,12,2>>, <<0,14,2>>, <<0,15,2>>, <<0,16,2>>, <<0,17,2>>, <<0,18,2>>>>,
    <<<<2,254,2>>, <<9,254,2>>, <<23,254,2>>, <<40,254,3>>, <<1,2,2>>, <<22,2,3>>, <<1,3,2>>, <<22,3,3>>,
      <<1,4,2>>, <<22,4,3>>, <<1,5,2>>, <<22,5,3>>, <<1,6,2>>, <<22,6,3>>, <<1,7,2>>, <<22,7,3>>>>,
    <<<<3,254,2>>, <<6,254,2>>, <<10,254,2>>, <<15,254,2>>, <<24,254,2>>, <<31,254,2>>, <<41,254,2>>, <<56,254,3>>,
      <<2,2,2>>, <<9,2,2>>, <<23,2,2>>, <<40,2,3>>, <<2,3,2>>, <<9,3,2>>, <<23,3,2>>, <<40,3,3>>>>,
    <<<<3,2,2>>, <<6,2,2>>, <<10,2,2>>, <<15,2,2>>, <<24,2,2>>, <<31,2,2>>, <<41,2,2>>, <<56,2,3>>,
      <<3,3,2>>, <<6,3,2>>, <<10,3,2>>, <<15,3,2>>, <<24,3,2>>, <<31,3,2>>, <<41,3,2>>, <<56,3,3>>>>,
    <<<<2,4,2>>, <<9,4,2>>, <<23,4,2>>, <<40,4,3>>, <<2,5,2>>, <<9,5,2>>, <<23,5,2>>, <<40,5,3>>,
      <<2,6,2>>, <<9,6,2>>, <<23,6,2>>, <<40,6,3>>, <<2,7,2>>, <<9,7,2>>, <<23,7,2>>, <<40,7,3>>>>,
    <<<<3,4,2>>, <<6,4,2>>, <<10,4,2>>, <<15,4,2>>, <<24,4,2>>, <<31,4,2>>, <<41,4,2>>, <<56,4,3>>,
      <<3,5,2>>, <<6,5,2>>, <<10,5,2>>, <<15,5,2>>, <<24,5,2>>, <<31,5,2>>, <<41,5,2>>, <<56,5,3>>>>,
    <<<<3,6,2>>, <<6,6,2>>, <<10,6,2>>, <<15,6,2>>, <<24,6,2>>, <<31,6,2>>, <<41,6,2>>, <<56,6,3>>,
      <<3,7,2>>, <<6,7,2>>, <<10,7,2>>, <<15,7,2>>, <<24,7,2>>, <<31,7,2>>, <<41,7,2>>, <<56,7,3>>>>,
    <<<<1,8,2>>, <<22,8,3>>, <<1,11,2>>, <<22,11,3>>, <<1,12,2>>, <<22,12,3>>, <<1,14,2>>, <<22,14,3>>,
      <<1,15,2>>, <<22,15,3>>, <<1,16,2>>, <<22,16,3>>, <<1,17,2>>, <<22,17,3>>, <<1,18,2>>, <<22,18,3>>>>,
    <<<<2,8,2>>, <<9,8,2>>, <<23,8,2>>, <<40,8,3>>, <<2,11,2>>, <<9,11,2>>, <<23,11,2>>, <<40,11,3>>,
      <<2,12,2>>, <<9,12,2>>, <<23,12,2>>, <<40,12,3>>, <<2,14,2>>, <<9,14,2>>, <<23,14,2>>, <<40,14,3>>>>,
    <<<<3,8,2>>, <<6,8,2>>, <<10,8,2>>, <<15,8,2>>, <<24,8,2>>, <<31,8,2>>, <<41,8,2>>, <<56,8,3>>,
      <<3,11,2>>, <<6,11,2>>, <<10,11,2>>, <<15,11,2>>, <<24,11,2>>, <<31,11,2>>, <<41,11,2>>, <<56,11,3>>>>,
    <<<<3,12,2>>, <<6,12,2>>, <<10,12,2>>, <<15,12,2>>, <<24,12,2>>, <<31,12,2>>, <<41,12,2>>, <<56,12,3>>,
      <<3,14,2>>, <<6,14,2>>, <<10,14,2>>, <<15,14,2>>, <<24,14,2>>, <<31,14,2>>, <<41,14,2>>, <<56,14,3>>>>,
    <<<<2,15,2>>, <<9,15,2>>, <<23,15,2>>, <<40,15,3>>, <<2,16,2>>, <<9,16,2>>, <<23,16,2>>, <<40,16,3>>,
      <<2,17,2>>, <<9,17,2>>, <<23,17,2>>, <<40,17,3>>, <<2,18,2>>, <<9,18,2>>, <<23,18,2>>, <<40,18,3>>>>,
    <<<<3,15,2>>, <<6,15,2>>, <<10,15,2>>, <<15,15,2>>, <<24,15,2>>, <<31,15,2>>, <<41,15,2>>, <<56,15,3>>,
      <<3,16,2>>, <<6,16,2>>, <<10,16,2>>, <<15,16,2>>, <<24,16,2>>, <<31,16,2>>, <<41,16,2>>, <<56,16,3>>>>,
    <<<<3,17,2>>, <<6,17,2>>, <<10,17,2>>, <<15,17,2>>, <<24,17,2>>, <<31,17,2>>, <<41,17,2>>, <<56,17,3>>,
      <<3,18,2>>, <<6,18,2>>, <<10,18,2>>, <<15,18,2>>, <<24,18,2>>, <<31,18,2>>, <<41,18,2>>, <<56,18,3>>>>,
    <<<<0,19,2>>, <<0,20,2>>, <<0,21,2>>, <<0,23,2>>, <<0,24,2>>, <<0,25,2>>, <<0,26,2>>, <<0,27,2>>,
      <<0,28,2>>, <<0,29,2>>, <<0,30,2>>, <<0,31,2>>, <<0,127,2>>, <<0,220,2>>, <<0,249,2>>, <<253,0,0>>>>,
    <<<<1,19,2>>, <<22,19,3>>, <<1,20,2>>, <<22,20,3>>, <<1,21,2>>, <<22,21,3>>, <<1,23,2>>, <<22,23,3>>,
      <<1,24,2>>, <<22,24,3>>, <<1,25,2>>, <<22,25,3>>, <<1,26,2>>, <<22,26,3>>, <<1,27,2>>, <<22,27,3>>>>,
    <<<<2,19,2>>, <<9,19,2>>, <<23,19,2>>, <<40,19,3>>, <<2,20,2>>, <<9,20,2>>, <<23,20,2>>, <<40,20,3>>,
      <<2,21,2>>, <<9,21,2>>, <<23,21,2>>, <<40,21,3>>, <<2,23,2>>, <<9,23,2>>, <<23,23,2>>, <<40,23,3>>>>,
    <<<<3,19,2>>, <<6,19,2>>, <<10,19,2>>, <<15,19,2>>, <<24,19,2>>, <<31,19,2>>, <<41,19,2>>, <<56,19,3>>,
      <<3,20,2>>, <<6,20,2>>, <<10,20,2>>, <<15,20,2>>, <<24,20,2>>, <<31,20,2>>, <<41,20,2>>, <<56,20,3>>>>,
    <<<<3,21,2>>, <<6,21,2>>, <<10,21,2>>, <<15,21,2>>, <<24,21,2>>, <<31,21,2>>, <<41,21,2>>, <<56,21,3>>,
      <<3,23,2>>, <<6,23,2>>, <<10,23,2>>, <<15,23,2>>, <<24,23,2>>, <<31,23,2>>, <<41,23,2>>, <<56,23,3>>>>,
    <<<<2,24,2>>, <<9,24,2>>, <<23,24,2>>, <<40,24,3>>, <<2,25,2>>, <<9,25,2>>, <<23,25,2>>, <<40,25,3>>,
      <<2,26,2>>, <<9,26,2>>, <<23,26,2>>, <<40,26,3>>, <<2,27,2>>, <<9,27,2>>, <<23,27,2>>, <<40,27,3>>>>,
    <<<<3,24,2>>, <<6,24,2>>, <<10,24,2>>, <<15,24,2>>, <<24,24,2>>, <<31,24,2>>, <<41,24,2>>, <<56,24,3>>,
      <<3,25,2>>, <<6,25,2>>, <<10,25,2>>, <<15,25,2>>, <<24,25,2>>, <<31,25,2>>, <<41,25,2>>, <<56,25,3>>>>,
    <<<<3,26,2>>, <<6,26,2>>, <<10,26,2>>, <<15,26,2>>, <<24,26,2>>, <<31,26,2>>, <<41,26,2>>, <<56,26,3>>,
      <<3,27,2>>, <<6,27,2>>, <<10,27,2>>, <<15,27,2>>, <<24,27,2>>, <<31,27,2>>, <<41,27,2>>, <<56,27,3>>>>,
    <<<<1,28,2>>, <<22,28,3>>, <<1,29,2>>, <<22,29,3>>, <<1,30,2>>, <<22,30,3>>, <<1,31,2>>, <<22,31,3>>,
      <<1,127,2>>, <<22,127,3>>, <<1,220,2>>, <<22,220,3>>, <<1,249,2>>, <<22,249,3>>, <<254,0,0>>, <<255,0,0>>>>,
    <<<<2,28,2>>, <<9,28,2>>, <<23,28,2>>, <<40,28,3>>, <<2,29,2>>, <<9,29,2>>, <<23,29,2>>, <<40,29,3>>,
      <<2,30,2>>, <<9,30,2>>, <<23,30,2>>, <<40,30,3>>, <<2,31,2>>, <<9,31,2>>, <<23,31,2>>, <<40,31,3>>>>,
    <<<<3,28,2>>, <<6,28,2>>, <<10,28,2>>, <<15,28,2>>, <<24,28,2>>, <<31,28,2>>, <<41,28,2>>, <<56,28,3>>,
      <<3,29,2>>, <<6,29,2>>, <<10,29,2>>, <<15,29,2>>, <<24,29,2>>, <<31,29,2>>, <<41,29,2>>, <<56,29,3>>>>,
    <<<<3,30,2>>, <<6,30,2>>, <<10,30,2>>, <<15,30,2>>, <<24,30,2>>, <<31,30,2>>, <<41,30,2>>, <<56,30,3>>,
      <<3,31,2>>, <<6,31,2>>, <<10,31,2>>, <<15,31,2>>, <<24,31,2>>, <<31,31,2>>, <<41,31,2>>, <<56,31,3>>>>,
    <<<<2,127,2>>, <<9,127,2>>, <<23,127,2>>, <<40,127,3>>, <<2,220,2>>, <<9,220,2>>, <<23,220,2>>, <<40,220,3>>,
      <<2,249,2>>, <<9,249,2>>, <<23,249,2>>, <<40,249,3>>, <<0,10,2>>, <<0,13,2>>, <<0,22,2>>, <<0,0,4>>>>,
    <<<<3,127,2>>, <<6,127,2>>, <<10,127,2>>, <<15,127,2>>, <<24,127,2>>, <<31,127,2>>, <<41,127,2>>, <<56,127,3>>,
      <<3,220,2>>, <<6,220,2>>, <<10,220,2>>, <<15,220,2>>, <<24,220,2>>, <<31,220,2>>, <<41,220,2>>, <<56,220,3>>>>,
    <<<<3,249,2>>, <<6,249,2>>, <<10,249,2>>, <<15,249,2>>, <<24,249,2>>, <<31,249,2>>, <<41,249,2>>, <<56,249,3>>,
      <<1,10,2>>, <<22,10,3>>, <<1,13,2>>, <<22,13,3>>, <<1,22,2>>, <<22,22,3>>, <<0,0,4>>, <<0,0,5>>>>,
    <<<<2,10,2>>, <<9,10,2>>, <<23,10,2>>, <<40,10,3>>, <<2,13,2>>, <<9,13,2>>, <<23,13,2>>, <<40,13,3>>,
      <<2,22,2>>, <<9,22,2>>, <<23,22,2>>, <<40,22,3>>, <<0,0,4>>, <<0,0,4>>, <<0,0,4>>, <<0,0,5>>>>,
    <<<<3,10,2>>, <<6,10,2>>, <<10,10,2>>, <<15,10,2>>, <<24,10,2>>, <<31,10,2>>, <<41,10,2>>, <<56,10,3>>,
      <<3,13,2>>, <<6,13,2>>, <<10,13,2>>, <<15,13,2>>, <<24,13,2>>, <<31,13,2>>, <<41,13,2>>, <<56,13,3>>>>,
    <<<<3,22,2>>, <<6,22,2>>, <<10,22,2>>, <<15,22,2>>, <<24,22,2>>, <<31,22,2>>, <<41,22,2>>, <<56,22,3>>,
      <<0,0,4>>, <<0,0,4>>, <<0,0,4>>, <<0,0,4>>, <<0,0,4>>, <<0,0,4>>, <<0,0,4>>, <<0,0,5>>>> >>

(* Variant of DECODE_TABLE with one flag more: eight ones may be padding. *)
DecodeTableLongPad(state, input) ==
    IF <<state, input>> = <<64, 15>> THEN <<78, 0, MAYBE_EOS>>
    ELSE DecodeRows[state + 1][input + 1]

(* DECODE_TABLE[state][input] *)
DECODE_TABLE(state, input) == DecodeRows[state + 1][input + 1]
=============================================================================
