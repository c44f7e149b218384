----------------------------- MODULE UsaStreams -----------------------------
(*****************************************************************************)
(* usastreams.py: the compressed streams of the American cartridge, those    *)
(* its tagged dump records bank by bank and those harvested from the         *)
(* running game.                                                             *)
(*****************************************************************************)
EXTENDS Integers, Sequences, TLC

\* The streams of one ROM bank, from their offsets in it and their lengths.
Entries(bank, listed) ==
  [i \in 1 .. Len(listed) \div 2 |->
    <<65536 * bank + listed[2 * i - 1], listed[2 * i]>>]

Bank00 == Entries(\h00, <<
  \h7890, 832, \h7998, 832, \h7A65, 832, \h7B01, 832, \h7BA6, 832,
  \h7C0E, 560, \h7C41, 832, \h7CC9, 832, \h7D2A, 832, \h7DA4, 832>>)

Bank13 == Entries(\h13, <<
  \h0000, 1152, \h02EF, 8192, \h0E9D, 2048, \h1150, 2048, \h1195, 2048,
  \h1490, 2048, \h16C4, 2048, \h18AC, 2048, \h1BC2, 3488, \h223B, 3008,
  \h2814, 2304, \h2C08, 1056, \h2D8B, 2048, \h2DC0, 2048, \h2E7E, 2048,
  \h2F4B, 2048, \h30FD, 2048, \h331A, 2048, \h33F7, 2048, \h34D7, 2048,
  \h357E, 2048, \h35F9, 4000, \h39DC, 2048, \h3AA6, 2048, \h3C0A, 2048,
  \h3DD8, 2048, \h3F37, 2048, \h40C4, 2048, \h41B1, 2048, \h42AD, 2048,
  \h4327, 19008, \h72B4, 8192, \h7B2E, 27648, \hC03B, 1536, \hC3F8, 8192,
  \hCE4D, 19904>>)

Bank14 == Entries(\h14, <<
  \h0011, 24576, \h3C58, 1024, \h3E7E, 8192, \h47CC, 17920, \h6E3A, 1120,
  \h702A, 8192, \h7A77, 28832, \hB8DE, 8192, \hC11B, 25888>>)

Bank15 == Entries(\h15, <<
  \h0002, 27584, \h4508, 8192, \h5086, 22368, \h8969, 8192, \h940D, 25248,
  \hD3B4, 2144, \hD8B5, 8192, \hE36B, 8192, \hEEC6, 8192>>)

Bank16 == Entries(\h16, <<
  \h000F, 24064, \h390E, 8192, \h41C9, 1024, \h4440, 8192, \h4FB2, 32000,
  \h9DEC, 8192, \hA78A, 26464, \hDDA1, 8192, \hE635, 6656, \hF7EC, 2048,
  \hFA4E, 2048, \hFB45, 8192>>)

Bank17 == Entries(\h17, <<
  \h000C, 27264, \h4355, 1792, \h4845, 8192, \h52B1, 352, \h53A8, 8192,
  \h5DCA, 27776, \h9FB4, 512, \hA117, 30656, \hE5F2, 8192, \hEE6C, 8192,
  \hF71E, 8192>>)

Bank18 == Entries(\h18, <<
  \h0006, 23200, \h3B3F, 3104, \h4341, 8192, \h4E3E, 26016, \h8AED, 8192,
  \h9539, 16384, \hAA8A, 8192, \hB378, 800, \hB57A, 8192, \hBD21, 8192,
  \hC49F, 8192, \hCC2D, 8192, \hD178, 8192, \hD99C, 8192, \hE041, 8192,
  \hE575, 8192, \hEBCD, 8192, \hF216, 8192, \hF8D7, 8192, \hFED7, 2048>>)

Bank19 == Entries(\h19, <<
  \h0008, 8192, \h06C5, 8192, \h0EB3, 8192, \h1786, 8192, \h1E85, 8192,
  \h23E6, 5408, \h2F5F, 4096, \h32A3, 4096, \h35EB, 4096, \h3937, 4096,
  \h3C8B, 4096, \h3FCA, 4096, \h4313, 4096, \h4658, 4096, \h499E, 4096,
  \h4CE1, 4096, \h5021, 4096, \h53A6, 1792, \h544E, 1728, \h54E0, 1664,
  \h5602, 1600, \h573D, 1984, \h57E0, 2048, \h5909, 2016, \h59E6, 3584,
  \h5E37, 480, \h5F02, 7360, \h6B0D, 832, \h6C27, 3584, \h7325, 4096,
  \h7A4B, 2048, \h7E2C, 768, \h7FB7, 1120, \h81EC, 1024, \h847C, 800,
  \h8675, 1088, \h8908, 1184, \h8CC2, 832, \h8E9F, 800, \h9028, 1280,
  \h92D2, 1664, \h95B4, 6144, \h9FA3, 2048, \hA55A, 2048, \hA891, 2112,
  \hAE04, 3104, \hB0FC, 640, \hB143, 8192, \hC2CC, 1024, \hC3D1, 1024,
  \hCC09, 2656, \hD12B, 2048, \hD1DD, 1024, \hD2E5, 5120, \hDB10, 2048,
  \hDBE1, 4608, \hE941, 1344, \hE9C2, 768, \hEBC4, 768, \hEE1D, 1600,
  \hF630, 960, \hF903, 3328>>)

Bank1A == Entries(\h1A, <<
  \h000D, 3936, \h07E4, 64, \h0813, 4032, \h0D24, 3584, \h1458, 1024,
  \h1634, 3904, \h1C01, 3072, \h2196, 3104, \h2750, 3424, \h2F54, 3392,
  \h36F5, 2944, \h3CFE, 3584, \h4488, 3968, \h4D32, 3776, \h54EE, 3520,
  \h5CC1, 3680, \h644D, 3872, \h6CE4, 3872, \h749D, 3744, \h7DF0, 3168,
  \h8477, 2752, \h8A2E, 3680, \h9225, 3488, \h9A2D, 3456, \hA190, 2112,
  \hA5B1, 704, \hA69F, 704, \hA786, 704, \hA889, 704, \hA996, 704,
  \hAA79, 704, \hAB7F, 704, \hAC70, 704, \hAD65, 704, \hAE78, 704,
  \hAF75, 704, \hB073, 704, \hB17B, 704, \hB274, 704, \hB369, 704,
  \hB45D, 704, \hB54C, 704, \hB640, 704, \hB747, 704, \hB82E, 2048,
  \hB938, 3986, \hBD9C, 6144, \hC22B, 1088, \hC3BE, 128, \hC800, 3584,
  \hCC76, 2048>>)

Bank1B == Entries(\h1B, <<
  \h0000, 32, \h0015, 3552, \h0748, 1568, \h0ACD, 1664, \h0DC3, 2944,
  \h13FB, 736, \h159D, 2400, \h1A06, 400, \h1ACC, 6848, \h2A2A, 2176,
  \h2F17, 8992, \h439E, 3040, \h4AD3, 4224, \h5421, 3392, \h5BA4, 3168,
  \h62D1, 2592, \h6900, 2976, \h7098, 2656, \h76C8, 3584, \h7F66, 6752,
  \h8FD5, 3424, \h9833, 1664, \h9C1E, 1824, \hA016, 2944, \hA72E, 1312,
  \hAA1F, 2720, \hAF7D, 2048, \hB25B, 832, \hB2E0, 832, \hB3A1, 832,
  \hB3E2, 832, \hB486, 832, \hB50B, 832, \hB551, 832, \hB5D3, 832,
  \hB61B, 832, \hB65D, 832, \hB707, 832, \hB85F, 832, \hB8E1, 832,
  \hB993, 832, \hBA85, 832, \hBADF, 832, \hBB63, 832, \hBC45, 832,
  \hBCA8, 832, \hBD82, 832, \hBE6A, 832, \hBF13, 832, \hBF7F, 832,
  \hBFE0, 832, \hC072, 832, \hC0F0, 832, \hC165, 832, \hC240, 832,
  \hC304, 832, \hC373, 832, \hC445, 832, \hC49D, 832, \hC55C, 832,
  \hC600, 4096, \hCCEA, 4096, \hD37A, 4096, \hD8D2, 1472, \hDA01, 5920,
  \hE8FB, 2048, \hEC08, 2048, \hED2E, 7936, \hF95D, 3840>>)

Bank1C == Entries(\h1C, <<
  \h0000, 2304, \h0434, 2144, \h0864, 1088, \h09E4, 2560, \h0EF6, 3040,
  \h1560, 3040, \h1A4B, 3040, \h210C, 2816, \h2782, 2752, \h2C78, 960,
  \h2EBE, 992, \h3125, 896, \h3329, 960, \h3556, 832, \h373C, 1024,
  \h39AF, 1024, \h3B50, 1024, \h3C32, 1024, \h3E48, 992, \h4056, 1024,
  \h423E, 1024, \h4497, 928, \h46BF, 1024, \h486C, 832, \h49C7, 896,
  \h4B3C, 1024, \h4DC7, 960, \h4FCF, 704, \h50E4, 1024, \h52A2, 768,
  \h53F2, 960, \h5584, 864, \h58BF, 896, \h5AA0, 768, \h5E7F, 992,
  \h60B7, 1024, \h62CF, 768, \h641B, 992, \h662F, 992, \h679A, 704,
  \h68AA, 640, \h69D0, 640, \h6ADD, 640, \h6BDB, 704, \h6D3A, 800,
  \h6E7F, 864, \h7030, 800, \h71D0, 832, \h7391, 832, \h7562, 992,
  \h77E4, 992, \h7A57, 768, \h7C3A, 896, \h7E51, 992, \h80A1, 768,
  \h8225, 704, \h8325, 864, \h8507, 704, \h867A, 960, \h8885, 960,
  \h8A77, 1024, \h8C51, 1024, \h8E1F, 768, \h8F3F, 896, \h9107, 960,
  \h9322, 1024, \h94EA, 1024, \h96BC, 896, \h9800, 1024, \h9A74, 1024,
  \h9B84, 832, \h9D7D, 928, \h9FD0, 832, \hA2D5, 896, \hA54B, 1024,
  \hA7B4, 704, \hA8EB, 832, \hAA4E, 1024, \hAC73, 832, \hAE0D, 896,
  \hB01A, 896, \hB21C, 928, \hB435, 1024, \hB65C, 832, \hB795, 832,
  \hB933, 832, \hBA70, 832, \hBC10, 832, \hBD71, 832, \hBF0C, 832,
  \hC09A, 832, \hC1AE, 768, \hC2AD, 896, \hC3AA, 640, \hC540, 1024,
  \hC7BD, 832, \hC960, 640, \hCA6B, 704, \hCB99, 1024, \hCE7E, 928,
  \hD11C, 992, \hD3BC, 960, \hD548, 704, \hD67D, 1024, \hD95E, 992,
  \hDC0B, 992, \hDEA1, 2048, \hE734, 1024, \hE8B5, 1024, \hE94D, 1856,
  \hEC34, 128, \hEC88, 576, \hED39, 768, \hEE5F, 1216, \hF0D2, 1344,
  \hF393, 768, \hF4AE, 896, \hF53F, 896, \hF6B8, 992, \hF91E, 768,
  \hF9CB, 96, \hFA00, 768, \hFB37, 992, \hFDFB, 928>>)

Bank1D == Entries(\h1D, <<
  \h0000, 1024, \h04C3, 640, \h0611, 992, \h0837, 864, \h0999, 896,
  \h0B34, 896, \h0C90, 1408, \h0F01, 1312, \h1224, 832, \h1367, 640,
  \h144A, 1344, \h175D, 960, \h18F4, 896, \h1AC5, 1024, \h1D1A, 1024,
  \h1F89, 1408, \h257E, 832, \h265A, 1024, \h28B5, 896, \h2A96, 1152,
  \h2D56, 640, \h2E19, 1024, \h30BD, 896, \h3303, 928, \h34C0, 896,
  \h3667, 1024, \h386B, 672, \h3985, 416, \h3A49, 928, \h3C50, 768,
  \h3E40, 896, \h4081, 1024, \h42D3, 1024, \h4552, 992, \h47A4, 768,
  \h492D, 768, \h4A5C, 832, \h4C46, 768, \h4DCE, 832, \h4F5F, 928,
  \h5110, 896, \h523C, 960, \h54AA, 896, \h5680, 704, \h57C4, 320,
  \h5846, 768, \h5958, 768, \h5AF9, 768, \h5C92, 768, \h5E28, 768,
  \h5FA3, 768, \h609C, 576, \h6189, 640, \h6269, 704, \h639B, 928,
  \h6554, 800, \h6695, 768, \h6826, 704, \h6905, 896, \h6AB9, 768,
  \h6C06, 992, \h6DCF, 1536, \h703E, 768, \h7169, 1184, \h739A, 1504,
  \h76C8, 1536, \h7A26, 1152, \h7CE3, 1024, \h7ED6, 960, \h80C4, 704,
  \h8202, 768, \h8358, 1184, \h856F, 1344, \h87D9, 864, \h8970, 640,
  \h8A19, 832, \h8BCB, 1120, \h8D87, 960, \h9087, 1440, \h92FD, 1504,
  \h9552, 1024, \h9765, 1120, \h997D, 1024, \h9AA3, 640, \h9BA8, 896,
  \h9D99, 992, \h9FB7, 192, \hA026, 768, \hA0E1, 1024, \hA2E7, 768,
  \hA43A, 768, \hA581, 768, \hAFF5, 128, \hB016, 704, \hB14C, 704,
  \hB2F3, 640, \hB37F, 832, \hB4BE, 704, \hB58B, 896, \hB6B4, 640,
  \hB73F, 832, \hB842, 576, \hB8B6, 832, \hB9D7, 512, \hBAE7, 1024,
  \hBD8F, 288, \hBE33, 1024, \hBFC5, 1152, \hC1F3, 1280, \hC44E, 1216,
  \hC65B, 960, \hC7D3, 1024, \hC939, 960, \hCB61, 1024, \hCDA6, 320,
  \hF578, 2592, \hF9D9, 640, \hFB04, 2048, \hFC0B, 2048, \hFD5E, 2048,
  \hFEAB, 2048, \hFFF1, 64>>)

Bank1E == Entries(\h1E, <<
  \h0000, 10752, \h18F8, 22400, \h3E22, 2048, \h3FA6, 2048, \h40AF, 2048,
  \h41C7, 256, \h421C, 2048, \h42D4, 864, \h446F, 6976, \h4ED8, 1920,
  \h5136, 3648, \h5764, 2688, \h5A08, 1536, \h5D27, 2048, \h5E2A, 2048,
  \h5EE0, 2048, \h5F8A, 2048, \h5FF7, 2048, \h613E, 2048, \h628D, 2048,
  \h643E, 2048, \h6B31, 2048, \h6C9B, 672, \h6E5B, 2048, \h6F70, 1088,
  \h707D, 2048, \h7196, 2048, \h7245, 4608, \h7A45, 8192, \h86DB, 3680,
  \h8E07, 3072, \h9362, 3072, \h97CC, 4096, \hA053, 2048, \hA445, 1024,
  \hA62C, 2048, \hA854, 2048, \hAAA3, 2048, \hADA7, 2048, \hAFB2, 2048,
  \hB1D5, 64, \hB1EB, 320, \hB236, 4608, \hBBAC, 2048, \hBCA8, 22464,
  \hF0D8, 2048, \hF2B8, 2048, \hF4A3, 2048, \hF6E0, 2048, \hF953, 2048,
  \hFA55, 2048, \hFB57, 4096, \hFEDB, 512>>)

Bank20 == Entries(\h20, <<
  \h0000, 1568, \h0427, 1600, \h0865, 1664, \h0CAD, 1472, \h106F, 1280,
  \h1416, 1504, \h17FD, 1632, \h1BEF, 1664, \h202E, 1920, \h246A, 1184,
  \h27AB, 992, \h2A75, 1664, \h2E09, 1440, \h31C8, 1536, \h35D1, 1888,
  \h3AAB, 1728, \h3F23, 1888, \h43EA, 1888, \h4914, 1664, \h4D0D, 1024,
  \h4FBD, 768, \h51AF, 1632, \h560B, 2016, \h5B3D, 1408, \h5EEC, 1632,
  \h6312, 1472, \h6704, 1248, \h6A4C, 1088, \h6D51, 1152, \h704D, 1120,
  \h7371, 1216, \h76A9, 1248, \h79FD, 1888, \h7F56, 1504, \h8334, 1504,
  \h86D3, 1536, \h8ADD, 1088, \h8DD3, 1504, \h91B8, 960, \h9439, 1600,
  \h986E, 1696, \h9C7F, 1664, \hA0A6, 1792, \hA51B, 1024, \hA7EE, 1600,
  \hABC9, 1184, \hAEA1, 1248, \hB198, 1120, \hB453, 1600, \hB753, 1344,
  \hBA54, 1184, \hBD3A, 1152, \hC079, 1248, \hC3DF, 1024, \hC757, 1664,
  \hCBAD, 1824, \hD03D, 1248, \hD3CB, 1280, \hD73E, 1024, \hDA9E, 1600,
  \hDE96, 1120, \hE18A, 1536, \hE562, 1024, \hE887, 1376, \hEC15, 1280,
  \hEF6E, 1536, \hF30D, 1344, \hF688, 1024, \hF941, 1280, \hFC7A, 1472>>)

Bank21 == Entries(\h21, <<
  \h0000, 1216, \h0366, 1536, \h0757, 1248, \h0AB0, 1376, \h0E14, 1536,
  \h11B3, 1088, \h1484, 1472, \h1855, 1184, \h1B60, 992, \h1E18, 1216,
  \h214E, 1312, \h24A5, 1248, \h280D, 1824, \h2CAA, 1504, \h3094, 1248,
  \h33B7, 1376, \h3755, 1088, \h3A3F, 1600, \h3DDE, 1152, \h40B3, 1024,
  \h4346, 1536, \h4762, 1248, \h4AA5, 2016, \h4F7E, 1184, \h5283, 896,
  \h54E9, 1024, \h5823, 1536, \h5C0E, 1536, \h601E, 1664, \h642E, 1728,
  \h68A7, 1248, \h6BB8, 1536, \h6F9D, 1408, \h7330, 1664, \h7727, 1344,
  \h7AC7, 1408, \h7E76, 1600, \h823B, 1440, \h85A0, 1472, \h897C, 1344,
  \h8CAD, 1728, \h90DD, 2016, \h95E1, 1664, \h9A3A, 1792, \h9EFD, 1024,
  \hA136, 992, \hA3CA, 1280, \hA6B6, 1856, \hAB33, 1824, \hAF00, 1792,
  \hB32D, 1120, \hB5D2, 1184, \hB90F, 1664, \hBCF6, 1760, \hC065, 1152,
  \hC2C8, 1056, \hC508, 1600, \hC882, 1280, \hCBCA, 1056, \hCEAA, 1600,
  \hD1D4, 1248, \hD4DB, 1504, \hD83A, 1440, \hDB98, 1600, \hDEA6, 1248,
  \hE1A9, 1600, \hE51A, 1120, \hE7F1, 1664, \hEB92, 1728, \hEFE7, 704,
  \hF1D1, 896, \hF41A, 704, \hF5FF, 832, \hF81D, 704, \hFA26, 704,
  \hFC24, 416, \hFD42, 352, \hFE47, 640>>)

Bank22a == Entries(\h22, <<
  \h0000, 352, \h010E, 320, \h0211, 416, \h0338, 640, \h04BB, 416,
  \h05D8, 768, \h07FC, 384, \h08EA, 416, \h09F2, 544, \h0B5A, 1856,
  \h0F3E, 992, \h1110, 736, \h129E, 1664, \h16AA, 1664, \h1AB4, 576,
  \h1C0E, 992, \h1EC9, 640, \h20A6, 512, \h222B, 448, \h2357, 416,
  \h2470, 128, \h24DA, 384, \h25F2, 288, \h26C8, 384, \h27E6, 768,
  \h29F0, 544, \h2B61, 992, \h2E1C, 448, \h2F61, 416, \h30AF, 320,
  \h31B6, 608, \h335A, 1024, \h3605, 736, \h37F1, 672, \h39AE, 640,
  \h3B2E, 608, \h3CD4, 800, \h3EFB, 576, \h4072, 448, \h41A2, 448,
  \h42C3, 480, \h4430, 672, \h45BB, 736, \h4761, 384, \h4854, 416,
  \h4973, 416, \h4AB0, 640, \h4BFD, 672, \h4DB6, 448, \h4EF3, 416,
  \h501D, 672, \h51D9, 320, \h52BF, 384, \h53A9, 320, \h547D, 864,
  \h569D, 448, \h57EB, 608, \h597E, 480, \h5ADC, 640, \h5C88, 768,
  \h5E67, 320, \h5F3F, 384, \h6025, 512, \h6173, 352, \h6288, 480,
  \h63F3, 1600, \h67AA, 384, \h68CA, 928, \h6AE8, 544, \h6C54, 352,
  \h6D3E, 160, \h6DB7, 416, \h6ED6, 416, \h700F, 448, \h710A, 320,
  \h71AE, 704, \h73A2, 512, \h74E7, 256, \h75A7, 576, \h7727, 832,
  \h7961, 704, \h7B09, 384>>)

Bank22b == Entries(\h22, <<
  \h7C29, 704, \h7DF4, 640, \h7F68, 704, \h8139, 736, \h8337, 736,
  \h8528, 320, \h85F8, 544, \h873A, 384, \h884B, 640, \h89BC, 640,
  \h8AB3, 352, \h8BAA, 352, \h8CB1, 576, \h8E0A, 512, \h8F4C, 992,
  \h91B8, 640, \h9341, 1664, \h96F8, 1600, \h9A40, 736, \h9C3E, 896,
  \h9E83, 800, \hA083, 864, \hA2C6, 640, \hA441, 672, \hA608, 992,
  \hA8A8, 320, \hA989, 352, \hAA81, 352, \hAB72, 320, \hAC4D, 640,
  \hAD95, 288, \hAE73, 320, \hAF4E, 384, \hB052, 640, \hB1E9, 352,
  \hB2EA, 1280, \hB60A, 1664, \hBA03, 512, \hBB47, 1152, \hBE56, 1280,
  \hC1C9, 1024, \hC498, 960, \hC705, 1344, \hCA36, 576, \hCB51, 608,
  \hCCF0, 512, \hCE62, 576, \hCFEE, 256, \hD0AE, 416, \hD1CD, 288,
  \hD281, 64, \hD2BA, 320, \hD39B, 704, \hD58B, 448, \hD6BB, 384,
  \hD7C4, 480, \hD90B, 288, \hD9D9, 768, \hDBD6, 992, \hDE59, 928,
  \hE07D, 832, \hE26D, 1600, \hE5F3, 768, \hE7F8, 1248, \hEAFD, 480,
  \hEC25, 384, \hED18, 384, \hEDFE, 1184, \hF0DA, 448, \hF206, 480,
  \hF362, 288, \hF437, 704, \hF5C4, 640, \hF6DC, 864, \hF932, 288,
  \hFA13, 704, \hFBD0, 256, \hFC78, 384, \hFD5F, 224, \hFDFD, 352,
  \hFEF5, 384>>)

Bank23 == Entries(\h23, <<
  \h0000, 1024, \h02BA, 480, \h03F3, 704, \h058B, 768, \h071C, 1024,
  \h0975, 608, \h0B1B, 256, \h0BC6, 704, \h0D99, 448, \h0EB7, 704,
  \h1060, 704, \h122B, 384, \h1348, 544, \h14B9, 672, \h1664, 1088,
  \h194D, 1920, \h1D5D, 1600, \h214C, 1664, \h254E, 1216, \h2884, 1728,
  \h2C96, 1792, \h30B3, 1792, \h34C9, 1760, \h38E9, 1728, \h3D0A, 1984,
  \h417E, 1152, \h4445, 1536, \h477F, 1472, \h4AC8, 1728, \h4E0D, 1728,
  \h51CC, 832, \h53D4, 832, \h55B8, 1728, \h59A4, 1664, \h5D4F, 704,
  \h5ED3, 704, \h604C, 1600, \h63E4, 576, \h654C, 2048, \h6ABA, 2016,
  \h6FB4, 1728, \h73DE, 1728, \h77DF, 1792, \h7BE8, 1728, \h8007, 1696,
  \h840A, 1920, \h887D, 1408, \h8BEC, 1600, \h8F43, 1376, \h92C3, 1984,
  \h97D1, 864, \h9A0D, 864, \h9C41, 1664, \hA012, 1696, \hA40D, 1728,
  \hA833, 1664, \hABAB, 1792, \hAFDF, 896, \hB1EB, 1664, \hB5E5, 1824,
  \hBA43, 1824, \hBEA7, 1792, \hC2EA, 1856, \hC713, 1728, \hCAFE, 1600,
  \hCE4C, 2016, \hD318, 1600, \hD6DE, 1664, \hDABF, 1216, \hDDB2, 1216,
  \hE06F, 1760, \hE470, 1760, \hE85E, 1920, \hED1A, 1792, \hF177, 1824,
  \hF5E1, 1600, \hF93B, 1024, \hFD32, 992>>)

Bank24 == Entries(\h24, <<
  \h0000, 1344, \h0367, 640, \h0483, 1408, \h07D2, 1280, \h0B01, 1312,
  \h0E15, 1184, \h10FC, 1504, \h147D, 1760, \h187C, 1280, \h1BC3, 1600,
  \h1F62, 1792, \h231B, 1280, \h25EC, 1600, \h29E7, 1440, \h2D6F, 1664,
  \h3133, 1664, \h34FC, 1696, \h38E2, 1888, \h3D75, 1952, \h4240, 1664,
  \h4652, 1888, \h4A6C, 832, \h4C0D, 1760, \h50A8, 1600, \h5436, 1920,
  \h582D, 1664, \h5B62, 1664, \h5F3E, 1408, \h625B, 1792, \h665A, 1696,
  \h6A2C, 1344, \h6D94, 1984, \h728B, 1728, \h766C, 1280, \h796F, 1600,
  \h7C79, 1600, \h7F94, 1216, \h8283, 1920, \h86F1, 1952, \h8B67, 1856,
  \h8F9E, 1952, \h9420, 1088, \h96B0, 1056, \h9945, 832, \h9B3A, 960,
  \h9DA2, 1184, \hA06F, 832, \hA278, 1216, \hA52E, 832, \hA6D0, 768,
  \hA82C, 2048, \hACF3, 1792, \hB08B, 704, \hB1AD, 640, \hB2C8, 1248,
  \hB5BE, 2048, \hBA4E, 1184, \hBD06, 1280, \hC013, 2048, \hC4A0, 1728,
  \hC7E2, 1600, \hCAEF, 1024, \hCDDA, 1280, \hD086, 1248, \hD36C, 1152,
  \hD63A, 832, \hD829, 1152, \hDAD0, 896, \hDD12, 960, \hDF7B, 832,
  \hE158, 704, \hE319, 1152, \hE5DA, 1248, \hE8C7, 864, \hEAE5, 1024,
  \hED29, 1600, \hF076, 1664, \hF3CD, 1312, \hF694, 1344, \hF966, 1600,
  \hFCBB, 1280>>)

Bank25 == Entries(\h25, <<
  \h0000, 1216, \h02B6, 1120, \h0540, 1664, \h084A, 1600, \h0B5A, 1120,
  \h0DD6, 928, \h0FD4, 1920, \h1455, 1088, \h16F4, 1120, \h19CC, 1216,
  \h1CD2, 1280, \h1FF0, 928, \h2258, 1024, \h24FC, 832, \h2709, 1120,
  \h299C, 896, \h2BC6, 1024, \h2E48, 1184, \h310E, 1600, \h345A, 768,
  \h3639, 1280, \h3934, 896, \h3B60, 1248, \h3E59, 1120, \h40D2, 1152,
  \h435D, 1280, \h465E, 1056, \h4904, 1280, \h4C14, 1152, \h4ED8, 1248,
  \h51C6, 1120, \h5477, 1248, \h578D, 1664, \h5ACB, 1184, \h5DBB, 1664,
  \h614B, 640, \h6268, 768, \h63DF, 704, \h650B, 1664, \h683E, 768,
  \h69C3, 992, \h6C1E, 1184, \h6EDE, 992, \h711C, 960, \h7345, 1312,
  \h7625, 1344, \h7931, 1248, \h7C21, 1184, \h7ECD, 1248, \h81AE, 1664,
  \h84DA, 1248, \h87B9, 1056, \h8A15, 1184, \h8CCC, 1600, \h8FE1, 1248,
  \h929C, 1152, \h952E, 1376, \h9831, 1152, \h9B01, 1152, \h9DAC, 1120,
  \hA030, 1312, \hA31C, 832, \hA51B, 1248, \hA7DF, 1120, \hAA8D, 1344,
  \hAD74, 1664, \hB0BE, 1248, \hB3A6, 1312, \hB6CB, 1984, \hBB54, 1600,
  \hBF64, 1664, \hC372, 1728, \hC7AC, 2048, \hCD21, 2048, \hD1C6, 1024,
  \hD41F, 1856, \hD8A6, 864, \hDAC2, 1664, \hDEF2, 1952, \hE2D3, 1312,
  \hE656, 1856, \hEAE3, 2048, \hF04D, 1312, \hF3D5, 1664, \hFAE4, 1952>>)

Bank26 == Entries(\h26, <<
  \h0000, 1952, \h04CB, 1312, \h0811, 960, \h0A9B, 1888, \h0F6B, 1856,
  \h1355, 768, \h1558, 1600, \h1C68, 1728, \h2044, 1792, \h24B5, 768,
  \h268D, 1824, \h2B02, 1664, \h2EE2, 1216, \h3257, 1664, \h3664, 1248,
  \h39B1, 1312, \h3D19, 1216, \h4053, 1728, \h4488, 1728, \h4872, 1728,
  \h4CA8, 1728, \h50F6, 1312, \h5456, 1312, \h577B, 1184, \h5A71, 1600,
  \h5E37, 1600, \h61EE, 1600, \h65F2, 1312, \h696C, 1664, \h6D88, 1664,
  \h718D, 1696, \h7607, 1216, \h7964, 1600, \h7D20, 1664, \h80E3, 1376,
  \h84AD, 1600, \h88E5, 1664, \h8CEB, 1248, \h9077, 1600, \h9455, 1280,
  \h97FB, 1664, \h9C4E, 1600, \h9FDD, 1664, \hA3AD, 1600, \hA71D, 1600,
  \hAB02, 2048, \hB024, 1664, \hB3F7, 1248, \hB749, 1664, \hBB4D, 1312,
  \hBEC4, 1312, \hC230, 1600, \hC615, 1600, \hC97B, 1664, \hCD84, 1248,
  \hD0DA, 1600, \hD4B3, 1600, \hD877, 2016, \hDD4F, 1184, \hE044, 1984,
  \hE56E, 1728, \hE9C5, 1664, \hEDB1, 1344, \hF0EE, 1600, \hF472, 1664,
  \hF878, 1376, \hFBAF, 1728>>)

Bank27 == Entries(\h27, <<
  \h0000, 1536, \h0383, 1664, \h0769, 1536, \h0B4B, 1920, \h0F10, 1600,
  \h12D2, 1504, \h16B4, 1600, \h1A8F, 1248, \h1E1A, 1600, \h21AB, 1728,
  \h25A2, 704, \h26EC, 1408, \h2A88, 1984, \h2F9D, 2016, \h34BA, 864,
  \h36EB, 1088, \h39B8, 832, \h3BD9, 1024, \h3E81, 1344, \h4189, 1536,
  \h4500, 1600, \h48D1, 1728, \h4CC1, 1792, \h50CD, 768, \h52AA, 768,
  \h54AA, 768, \h56AE, 832, \h58F3, 1728, \h5CEB, 1792, \h613C, 1600,
  \h6514, 768, \h66ED, 832, \h6902, 1664, \h6D07, 1600, \h70F4, 1728,
  \h7549, 1600, \h7918, 1024, \h7A5B, 1024, \h7BCD, 1024, \h7D61, 1024,
  \h7F3D, 1024, \h80FE, 960, \h82EB, 1024, \h8421, 1024, \h863A, 1024,
  \h875A, 1024, \h8947, 1024, \h8AE7, 960, \h8CDC, 1024, \h8DBD, 1024,
  \h8E97, 1024, \h90BF, 1024, \h9273, 1024, \h93BD, 1024, \h958A, 1024,
  \h9887, 1024, \h9AE0, 960, \h9D2A, 1024, \h9FD3, 896, \hA1DA, 896,
  \hA3B5, 768, \hA546, 832, \hA702, 960, \hA8A9, 832, \hAA00, 896,
  \hABD5, 896, \hAE13, 896, \hAFE9, 1088, \hB296, 960, \hB514, 896,
  \hB756, 768, \hB8D7, 896, \hBAD5, 1728, \hBE59, 768, \hBFD1, 768,
  \hC122, 1024, \hC39D, 768, \hC4BB, 768, \hC643, 768, \hC7D4, 768,
  \hC963, 1152, \hCC33, 1024, \hCEE3, 1280, \hD227, 1216, \hD53F, 832,
  \hD70D, 832, \hD8D7, 896, \hDB19, 1216, \hDDE7, 896, \hE002, 832,
  \hE207, 1088, \hE4FD, 1024, \hE7E1, 1152, \hEAE9, 1344, \hEE49, 1216,
  \hF165, 896, \hF3B3, 1280, \hF709, 1728, \hFAA2, 1344, \hFDE6, 896>>)

Bank28 == Entries(\h28, <<
  \h0000, 1728, \h037D, 1728, \h0709, 1792, \h0AA8, 1792, \h0E7C, 1344,
  \h11CB, 1280, \h1535, 768, \h16D2, 832, \h185F, 832, \h19D9, 832,
  \h1B6F, 1280, \h1E95, 1344, \h21C0, 1728, \h2513, 1088, \h27CA, 1216,
  \h2ABA, 1024, \h2DA6, 1408, \h3121, 1408, \h3493, 1088, \h374C, 1216,
  \h3A70, 1024, \h3D39, 1216, \h403F, 896, \h426F, 960, \h44D1, 1024,
  \h4748, 1088, \h4A1E, 896, \h4C39, 1216, \h4F66, 1280, \h528B, 1600,
  \h55D3, 1280, \h58AC, 1216, \h5B92, 1664, \h5EE5, 1088, \h61B0, 1728,
  \h651B, 1728, \h68D0, 1088, \h6BB8, 1152, \h6E97, 1344, \h71B9, 896,
  \h73A4, 960, \h75C1, 1216, \h7893, 704, \h795A, 768, \h7ACD, 1792,
  \h7E9B, 1792, \h8267, 704, \h8328, 768, \h8468, 1216, \h874A, 1728,
  \h8AE5, 1152, \h8DC2, 1728, \h90F3, 1792, \h94D3, 1728, \h9831, 1216,
  \h9B21, 1344, \h9E2C, 1728, \hA192, 1216, \hA4A8, 1344, \hA824, 960,
  \hAAAA, 1664, \hAE0F, 1408, \hB1A7, 1792, \hB56F, 1664, \hB8DC, 1344,
  \hBC1E, 1216, \hBF40, 1088, \hC203, 1152, \hC48D, 1728, \hC7E6, 1152,
  \hCAC1, 1664, \hCDFF, 1152, \hD0BB, 1280, \hD40A, 1792, \hD7C1, 1408,
  \hDB1F, 1216, \hDE37, 1216, \hE144, 1984, \hE5FE, 1984, \hEABC, 1920,
  \hEF67, 1536, \hF326, 2048, \hF7F6, 2048, \hFC86, 1408>>)

Bank29 == Entries(\h29, <<
  \h0000, 2304, \h0553, 2048, \h0A1A, 1856, \h0E59, 1216, \h117B, 1856,
  \h1582, 1408, \h18EE, 1216, \h1C05, 1024, \h1E6F, 960, \h207D, 1024,
  \h21A9, 1984, \h2604, 1344, \h2986, 1280, \h2CCC, 1280, \h300C, 1216,
  \h3333, 2048, \h37D8, 1024, \h39B6, 1024, \h3B96, 1024, \h3CD9, 1344,
  \h3FEA, 1472, \h433A, 2048, \h47C2, 1920, \h4C14, 896, \h4E57, 1152,
  \h5101, 1920, \h54F6, 1408, \h57C9, 1408, \h5ADF, 1984, \h5F54, 960,
  \h615A, 1024, \h6358, 1920, \h6799, 1984, \h6C0E, 2176, \h70EF, 1664,
  \h74B6, 1408, \h77D1, 1984, \h7C22, 2176, \h8127, 2560, \h86E8, 2176,
  \h8BD2, 2176, \h9069, 960, \h926C, 1920, \h969A, 1920, \h9ADC, 1024,
  \h9CD2, 768, \h9DD6, 1856, \hA1DC, 1536, \hA490, 1408, \hA7C9, 1984,
  \hABE8, 1920, \hAFE8, 1408, \hB32F, 1536, \hB6DF, 1152, \hB997, 1792,
  \hBD61, 1472, \hC0F7, 1984, \hC57E, 1920, \hC9E1, 1856, \hCE22, 1984,
  \hD2D3, 1280, \hD5E6, 1920, \hD9F8, 2048, \hDED2, 2560, \hE4B0, 384,
  \hE59D, 384, \hE679, 960, \hE8D4, 1536, \hEC88, 1024, \hEE86, 1024,
  \hF039, 1024, \hF1D2, 1280, \hF4D3, 1280, \hF7AB, 1408, \hFABB, 832,
  \hFCBF, 832, \hFECB, 704>>)

Bank2A == Entries(\h2A, <<
  \h0000, 896, \h0219, 1408, \h0580, 1920, \h096F, 1984, \h0DB7, 1920,
  \h11C3, 1920, \h15F5, 1216, \h18B8, 1920, \h1CAC, 1536, \h202F, 1024,
  \h216E, 960, \h23AE, 1024, \h25A6, 1024, \h2835, 320, \h28EE, 1920,
  \h2D19, 1216, \h2FE3, 832, \h31B4, 256, \h3628, 2048, \h3B10, 1216,
  \h3DC9, 1152, \h405E, 1216, \h42F0, 1536, \h45C8, 1728, \h4A36, 1280,
  \h4D69, 1216, \h5074, 1216, \h5376, 1024, \h554E, 1600, \h58FB, 1760,
  \h5D2E, 1888, \h61BE, 1664, \h65D5, 1600, \h6914, 1856, \h6C93, 1856,
  \h7004, 1664, \h7350, 1920, \h76F9, 1856, \h7A71, 1600, \h7DFC, 1952,
  \h8252, 2016, \h85F1, 1696, \h898F, 1600, \h8CFB, 1664, \h904B, 1760,
  \h93C1, 1600, \h96AF, 1728, \h9A0E, 1984, \h9E44, 1312, \hA172, 1536,
  \hA4DD, 1760, \hA8B6, 1920, \hACD2, 2496, \hB299, 2240, \hB705, 1600,
  \hBAA2, 1760, \hBE58, 1504, \hC1B7, 1600, \hC4EB, 1600, \hC835, 1344,
  \hCB63, 1600, \hCE88, 1600, \hD1DA, 1664, \hD4FD, 1728, \hD8AF, 1184,
  \hDB09, 1216, \hDD86, 1664, \hE103, 1728, \hE4B7, 1824, \hE860, 1856,
  \hEC39, 1728, \hEFDF, 1728, \hF397, 2048, \hF781, 2048, \hFC33, 1728>>)

Bank2B == Entries(\h2B, <<
  \h0000, 1792, \h0398, 2240, \h0826, 1728, \h0BCA, 1760, \h0F35, 1664,
  \h1293, 1600, \h15ED, 1664, \h192D, 1408, \h1C41, 1760, \h1FF3, 1664,
  \h2336, 1760, \h267D, 1600, \h298D, 1216, \h2C63, 2048, \h3106, 1952,
  \h34A6, 1664, \h3817, 1664, \h3B9B, 1632, \h3F09, 1440, \h4238, 1312,
  \h44FD, 1952, \h48FD, 1600, \h4C4A, 1408, \h4F62, 1664, \h52C9, 1536,
  \h55EF, 2016, \h5A7E, 1056, \h5D12, 832, \h5ED9, 1216, \h618C, 1600,
  \h64F0, 1056, \h6769, 1728, \h6ACA, 1888, \h6EC0, 2496, \h738B, 1984,
  \h77D6, 2112, \h7C7F, 1952, \h8011, 928, \h8221, 768, \h83E8, 928,
  \h860F, 864, \h882B, 768, \h89ED, 1664, \h8D85, 1664, \h90FB, 1952,
  \h9860, 256, \h98EC, 288, \h9974, 1760, \h9CF2, 1696, \hA077, 1664,
  \hA3DE, 1760, \hA7AD, 1600, \hAAA9, 1376, \hADA7, 1664, \hB15A, 1408,
  \hB4B1, 1664, \hB816, 1344, \hBAE7, 2048, \hBE21, 832, \hBFC7, 1728,
  \hC333, 1792, \hC6AF, 1600, \hC9D9, 1664, \hCD33, 1696, \hD08A, 1824,
  \hD42F, 1664, \hD7BB, 1792, \hDBB6, 1792, \hDF6B, 1920, \hE28C, 1728,
  \hE5B8, 704, \hE747, 1664, \hEB02, 1760, \hEE86, 2752, \hF377, 1760,
  \hF718, 1600, \hFA39, 1184, \hFCD3, 1248>>)

Bank2C == Entries(\h2C, <<
  \h0000, 1280, \h02CD, 1376, \h05D1, 1280, \h08C6, 1344, \h0C1F, 1312,
  \h0F4B, 1344, \h1286, 1312, \h15BA, 1344, \h18F1, 1280, \h1C12, 1024,
  \h1EDA, 1408, \h2230, 1216, \h2547, 1024, \h282B, 1344, \h2B76, 1472,
  \h2ECD, 1472, \h3245, 736, \h3478, 1280, \h37AB, 1056, \h3A45, 928,
  \h3CB3, 1376, \h4016, 1088, \h42EB, 1472, \h461B, 1024, \h4882, 928,
  \h4AA7, 1088, \h4D4B, 1728, \h5101, 1120, \h5399, 1088, \h564F, 1824,
  \h5AA8, 1056, \h5D41, 1184, \h5FE7, 864, \h622A, 1152, \h64FD, 992,
  \h6763, 1152, \h6A0C, 1088, \h6CB1, 704, \h6E9C, 992, \h7134, 960,
  \h735F, 928, \h75C1, 1920, \h7A5E, 832, \h7C27, 1600, \h7F30, 1600,
  \h8286, 1184, \h8575, 1216, \h8831, 864, \h8A79, 896, \h8CF5, 1376,
  \h9045, 1344, \h9385, 1024, \h962F, 896, \h9899, 992, \h9B29, 1152,
  \h9E5D, 1184, \hA13F, 1152, \hA402, 1184, \hA6FA, 1376, \hAA2A, 1376,
  \hAD6F, 1312, \hB09B, 1248, \hB3C4, 1344, \hB6ED, 1152, \hB98F, 1056,
  \hBC2C, 1344, \hBF22, 1376, \hC224, 1248, \hC4FF, 1408, \hC808, 1600,
  \hCB25, 1120, \hCDB9, 1376, \hD0EB, 1088, \hD38A, 896, \hD5C3, 1248,
  \hD88C, 1056, \hDB28, 1792, \hDF0A, 1056, \hE1DA, 1440, \hE577, 1152,
  \hE867, 1024, \hEB13, 1248, \hEE11, 1280, \hF0FE, 1600, \hF444, 1376,
  \hF783, 1184, \hFA78, 992, \hFCDA, 1088>>)

Bank2D == Entries(\h2D, <<
  \h0000, 1120, \h02C5, 1184, \h055E, 1184, \h07E8, 1184, \h0AAF, 1248,
  \h0D75, 1120, \h100D, 1088, \h12BC, 992, \h1542, 1024, \h17AF, 1408,
  \h1AD6, 1184, \h1DCA, 1152, \h2079, 1152, \h231E, 1056, \h2597, 1184,
  \h2888, 1184, \h2BA2, 928, \h2E22, 1056, \h30EE, 832, \h3326, 1088,
  \h35D0, 896, \h37FC, 800, \h3A2B, 1088, \h3CD0, 864, \h3F19, 832,
  \h4151, 960, \h43D2, 1120, \h468C, 928, \h48C2, 1600, \h4C7D, 1120,
  \h4F10, 832, \h5160, 1088, \h53FA, 1056, \h5684, 928, \h58D3, 960,
  \h5B45, 928, \h5DD1, 1728, \h6262, 1024, \h64D4, 1248, \h67CC, 1152,
  \h6A98, 1824, \h6ED9, 1248, \h71C3, 1152, \h7484, 1280, \h77E0, 1216,
  \h7A8F, 1024, \h7CDE, 928, \h7EFF, 960, \h816D, 1088, \h83F5, 1248,
  \h86E8, 1376, \h8A72, 1056, \h8D04, 1056, \h8FA2, 1312, \h92E9, 2048,
  \h95E3, 2048, \h990B, 768, \h9A9E, 672, \h9BA0, 1600, \h9E9E, 2048,
  \hA26F, 768, \hA402, 1696, \hA832, 1760, \hAC66, 1760, \hB06F, 1696,
  \hB458, 1088, \hB740, 1664, \hBB08, 1888, \hBEA7, 1504, \hC220, 864,
  \hC41B, 1600, \hC7FF, 1600, \hCBA0, 1600, \hCEF1, 1472, \hD29C, 1184,
  \hD5C1, 1312, \hD909, 1600, \hDD44, 1856, \hE238, 2048, \hE606, 1024,
  \hE8DC, 1216, \hEC15, 1728, \hF041, 1792, \hF427, 1728, \hF819, 1664,
  \hFBCE, 1920>>)

Bank2E == Entries(\h2E, <<
  \h0000, 1952, \h0471, 864, \h0666, 1216, \h0940, 1216, \h0C36, 928,
  \h0E5B, 928, \h1081, 1728, \h1474, 1664, \h1851, 1184, \h1B51, 1792,
  \h1F4D, 1152, \h222C, 1248, \h2511, 1344, \h2812, 1760, \h2C4C, 1856,
  \h309D, 1600, \h348F, 1984, \h3850, 704, \h396D, 2048, \h3D81, 704,
  \h3F06, 2048, \h437B, 832, \h44D0, 1600, \h483D, 1184, \h4B1B, 2048,
  \h4F81, 800, \h511B, 1600, \h54D6, 1184, \h57E5, 1376, \h5B78, 1280,
  \h5EA7, 1696, \h6271, 640, \h63FE, 1088, \h66D9, 1312, \h6A1C, 1184,
  \h6D23, 1152, \h7013, 1600, \h73B2, 2048, \h7849, 640, \h79AD, 1952,
  \h7E2B, 736, \h7FD0, 704, \h8117, 1664, \h84F8, 1664, \h88EB, 1664,
  \h8A39, 1600, \h8E0B, 1728, \h9237, 1664, \h962D, 1888, \h9A15, 1792,
  \h9E65, 1664, \hA23E, 1760, \hA65C, 800, \hA899, 1248, \hABC6, 1472,
  \hAC48, 832, \hAC99, 1536, \hAF93, 1344, \hB2AC, 1248, \hB585, 1280,
  \hB8AF, 1248, \hBB74, 1216, \hBE41, 1600, \hC186, 1344, \hC488, 1600,
  \hC792, 1344, \hCABB, 1312, \hCD82, 1600, \hD0A6, 1664, \hD432, 1216,
  \hD6EF, 1216, \hD9BA, 1504, \hDCEF, 1600, \hE02D, 1600, \hE34B, 1312,
  \hE621, 1600, \hE97B, 1792, \hED8D, 1856, \hF218, 1760, \hF67B, 1600,
  \hFA3B, 1920, \hFE81, 768>>)

Bank2F == Entries(\h2F, <<
  \h0064, 704, \h00A3, 1664, \h049A, 2048, \h08FE, 1600, \h0CC3, 1664,
  \h1099, 1792, \h14BD, 640, \h163D, 1600, \h19DC, 1056, \h1C58, 928,
  \h1E9A, 1024, \h2108, 2048, \h2550, 1920, \h298D, 1920, \h2DB5, 1984,
  \h3201, 1504, \h3555, 1600, \h38A7, 640, \h399B, 1600, \h3CEB, 1984,
  \h411F, 1984, \h4522, 1728, \h48C0, 1792, \h4C9B, 1952, \h50BB, 1152,
  \h5370, 1216, \h5629, 1248, \h58FA, 1216, \h5BC8, 1216, \h5E62, 1152,
  \h60FE, 1216, \h63B5, 1216, \h666C, 1280, \h6923, 1216, \h6BD1, 1664,
  \h6F4F, 1024, \h71AE, 1344, \h74D0, 1664, \h7831, 768, \h79F4, 1664,
  \h7D71, 832, \h7F6B, 1792, \h82DD, 832, \h846B, 768, \h85B5, 1152,
  \h8840, 1152, \h8AC0, 1120, \h8D4F, 1152, \h8FDD, 2048, \h9425, 352,
  \h94DE, 352, \h9597, 352, \h964D, 352, \h970B, 352, \h97CA, 1728,
  \h9B83, 1664, \h9F28, 448, \hA170, 1728, \hA535, 1216, \hA80B, 1120,
  \hAAF7, 1664, \hAEAD, 1856, \hB259, 1792, \hB634, 1728, \hB9E7, 1408,
  \hBD0E, 768, \hBEA8, 1600, \hC1A6, 1664, \hC54F, 1600, \hC87C, 1728,
  \hCBC0, 1728, \hCF7C, 864, \hD1A5, 928, \hD3D1, 1792, \hD79B, 1728,
  \hDAD4, 1728, \hDE86, 1280, \hE157, 1920, \hE5A1, 2048, \hEA41, 1984,
  \hEE20, 1856, \hF1F7, 2048, \hF64D, 1024, \hF87B, 2048, \hFC9D, 1440>>)

Bank30 == Entries(\h30, <<
  \h0000, 2048, \h03CF, 1728, \h07B6, 1312, \h0AAF, 1856, \h0E7D, 2016,
  \h1330, 1856, \h16E7, 2048, \h1B32, 1920, \h1F6D, 704, \h20C2, 768,
  \h223C, 1280, \h2523, 1920, \h292F, 1024, \h2B7F, 1728, \h2EA4, 1440,
  \h31CB, 1600, \h3509, 1216, \h37B5, 1440, \h3AEC, 1152, \h3D6C, 1600,
  \h40A2, 1376, \h4393, 1408, \h46D4, 2048, \h4AC3, 2048, \h4EDF, 1792,
  \h521F, 832, \h5395, 1664, \h56CE, 640, \h57D4, 1728, \h5B1E, 1024,
  \h5D5B, 1824, \h6156, 1024, \h638E, 2144, \h6810, 2080, \h6C52, 2048,
  \h7075, 2048, \h744A, 1728, \h77C5, 1728, \h7B08, 1952, \h7EF3, 2112,
  \h82DD, 1280, \h855A, 1184, \h87C3, 1824, \h8BDF, 2176, \h9039, 1184,
  \h92A7, 992, \h96CB, 1664, \h9A77, 1920, \h9E54, 2208, \hA280, 2048,
  \hA664, 1696, \hA9F5, 672, \hAB6B, 1920, \hAF86, 1664, \hB317, 1600,
  \hB6C1, 1664, \hBA4B, 864, \hBC4C, 1312, \hBF83, 1600, \hC282, 1600,
  \hC55F, 704, \hC6E4, 1792, \hCAC5, 1792, \hCEA9, 2336, \hD385, 2240,
  \hDA16, 1312, \hDD1A, 1312, \hE029, 1376, \hE333, 1152, \hE60C, 1152,
  \hE8D4, 1152, \hEB91, 1056, \hEE30, 1248, \hF10B, 1088, \hF3B0, 1088,
  \hF62F, 832, \hF80F, 960, \hFA5A, 1248, \hFCF6, 1312>>)

Bank31 == Entries(\h31, <<
  \h0000, 1792, \h03ED, 864, \h05F0, 1056, \h0855, 832, \h09ED, 704,
  \h0AE8, 1504, \h0E76, 1728, \h129F, 1248, \h154E, 1792, \h18C0, 704,
  \h19C3, 640, \h1AA2, 640, \h1BC2, 640, \h1CBB, 768, \h1E35, 1152,
  \h2100, 1152, \h23D0, 1024, \h2618, 992, \h2853, 992, \h2A8F, 1184,
  \h2D18, 1152, \h2FBC, 960, \h31F4, 1120, \h3495, 1056, \h36FD, 960,
  \h393A, 1152, \h3BE3, 1472, \h3F25, 1280, \h41E1, 1248, \h44C0, 1120,
  \h4707, 960, \h494B, 1408, \h4C61, 1376, \h4F8C, 1184, \h522A, 1248,
  \h54E8, 1280, \h578E, 1440, \h5AC0, 1184, \h5D8E, 1056, \h6014, 1216,
  \h630C, 1248, \h65F5, 1184, \h688C, 832, \h6A77, 1280, \h6D93, 1344,
  \h70C7, 1280, \h73D3, 1280, \h76DE, 1120, \h7985, 1824, \h7DC4, 2048,
  \h8244, 1248, \h8511, 1664, \h883B, 992, \h8AB9, 1120, \h8D49, 832,
  \h8F31, 1088, \h918B, 960, \h93A0, 1056, \h9611, 1248, \h98EA, 1600,
  \h9C2F, 832, \h9E19, 1600, \hA125, 960, \hA38A, 1184, \hA661, 1056,
  \hA8DC, 1216, \hAB8B, 1600, \hAEA0, 1088, \hB106, 1344, \hB3F3, 1120,
  \hB673, 1248, \hB91F, 1152, \hBBB1, 1312, \hBEA1, 1600, \hC1B7, 1120,
  \hC49C, 1984, \hC835, 768, \hC994, 768, \hCB45, 704, \hCC90, 1728,
  \hCFBC, 768, \hD15F, 1120, \hD3D9, 1280, \hD6BB, 1024, \hD905, 1024,
  \hDB12, 1600, \hDE4F, 1280, \hE147, 1312, \hE41E, 1248, \hE6B4, 1312,
  \hE967, 1600, \hEC4B, 1280, \hEEF4, 1152, \hF13E, 1120, \hF3C0, 1600,
  \hF6CB, 1216, \hF944, 1792, \hFDA1, 1088>>)

Bank32 == Entries(\h32, <<
  \h0000, 1152, \h0283, 1600, \h058F, 1152, \h080D, 1216, \h0A8E, 1056,
  \h0D0E, 1280, \h0FBB, 768, \h1188, 1184, \h144D, 1376, \h1735, 1504,
  \h1A28, 1184, \h1CDB, 1376, \h1FAE, 1984, \h2548, 2080, \h2AF4, 1984,
  \h3074, 1792, \h3523, 2208, \h3AC4, 2176, \h403B, 2176, \h45C6, 2304,
  \h4B87, 2112, \h50C0, 2176, \h5651, 2016, \h5B7F, 1792, \h5FA6, 1664,
  \h6375, 1728, \h6755, 2176, \h6CB0, 992, \h6F52, 896, \h71C7, 1920,
  \h76B5, 2912, \h7D67, 640, \h7EB7, 704, \h7FBC, 704, \h80F6, 1952,
  \h85AF, 960, \h8768, 640, \h88BD, 416, \h8997, 2912, \h908E, 1664,
  \h94CB, 1728, \h991B, 1728, \h9D18, 2208, \hA2E0, 2624, \hA93D, 2048,
  \hAEAB, 2272, \hB47B, 1984, \hB996, 1216, \hBD12, 1728, \hC19B, 1952,
  \hC623, 2368, \hCBEB, 2240, \hD168, 1824, \hD68C, 2368, \hE16F, 2688,
  \hE815, 2624, \hEE0E, 2624, \hF40B, 2688, \hFAB0, 2144>>)

Bank33 == Entries(\h33, <<
  \h0000, 2048, \h0526, 1664, \h0880, 2048, \h0E0E, 2432, \h141B, 1760,
  \h18FF, 1024, \h1F26, 1472, \h223E, 2112, \h2758, 2432, \h2CEC, 2272,
  \h32E4, 2080, \h383C, 2208, \h3DB6, 768, \h3F98, 2048, \h44C0, 1856,
  \h48DD, 1728, \h4D38, 2496, \h52D9, 2176, \h5853, 2080, \h5DAF, 1792,
  \h6219, 2144, \h6770, 1824, \h6C23, 2272, \h71C9, 2176, \h76AE, 2272,
  \h7C08, 1792, \h8042, 1728, \h8456, 2368, \h8A38, 1952, \h8F2C, 2496,
  \h953D, 2176, \h9A44, 2080, \h9FC9, 2624, \hA5CA, 2368, \hABBD, 2624,
  \hB1F6, 2624, \hBC91, 2272, \hC1D2, 2368, \hC711, 2624, \hCCB6, 1600,
  \hCFF2, 2208, \hD509, 2080, \hDA49, 2112, \hDF15, 2080, \hE3C2, 1952,
  \hE865, 1056, \hEAE3, 960, \hED2C, 960, \hEFBB, 2912, \hF6AE, 1664,
  \hF9BD, 1248, \hFC6A, 1728>>)

Bank34 == Entries(\h34, <<
  \h0000, 2272, \h054C, 2144, \h0A24, 1984, \h0E8F, 1312, \h115E, 2368,
  \h16FB, 2368, \h1C6B, 2432, \h21FC, 3040, \h288D, 1824, \h2CF9, 1760,
  \h3126, 2624, \h3756, 2624, \h3D5A, 2464, \h430E, 2880, \h496F, 2688,
  \h4F3D, 2624, \h5501, 1856, \h59C2, 1024, \h5C2E, 1984, \h60B6, 1216,
  \h631B, 1280, \h6595, 1280, \h6806, 1856, \h6B50, 1728, \h6DF4, 1152,
  \h701D, 1984, \h745F, 1856, \h77FE, 2688, \h7D44, 2816, \h82DE, 1792,
  \h863D, 1344, \h890A, 2688, \h8E47, 2048, \h930D, 1792, \h968E, 1600,
  \h99F4, 1024, \h9C23, 1600, \h9ED7, 2880, \hA4CC, 2752, \hAA84, 1792,
  \hAE3D, 2880, \hB454, 3008, \hBA72, 2880, \hC053, 2624, \hC5CD, 1984,
  \hC9D1, 1856, \hCD73, 704, \hCF07, 576, \hCF9A, 2752, \hD50E, 640,
  \hD5B0, 2368, \hDAA3, 2368, \hDFBD, 2816, \hE46C, 1024, \hE6B3, 2624,
  \hEB14, 2304, \hEFDD, 2304, \hF457, 2816, \hFA02, 2880>>)

Bank35 == Entries(\h35, <<
  \h0000, 2688, \h0551, 2112, \h0E77, 2688, \h1365, 2432, \h188F, 2048,
  \h2158, 2816, \h26EA, 2816, \h2CA6, 2048, \h3020, 2048, \h330D, 1536,
  \h35BB, 1536, \h3841, 2048, \h3B69, 1536, \h3E26, 2752, \h4397, 2816,
  \h4951, 2048, \h4D79, 2048, \h5165, 2176, \h5598, 2112, \h5A6F, 2048,
  \h5DC4, 2880, \h6402, 3008, \h6A50, 2496, \h6F7F, 2304, \h7489, 1536,
  \h76F5, 2752, \h7C71, 2368, \h8162, 2112, \h85B4, 1792, \h8911, 1664,
  \h8BCE, 1984, \h8FE9, 2048, \h9417, 1600, \h978C, 1888, \h9BD3, 2944,
  \hA239, 1024, \hA397, 1024, \hA568, 1024, \hA657, 1024, \hA881, 2048,
  \hAD18, 2560, \hB1FA, 1024, \hB3B9, 1344, \hB6AA, 2048, \hBB35, 2048,
  \hBEE8, 2880, \hC50D, 2304, \hC9C2, 1024, \hCB85, 3008, \hD1DB, 2112,
  \hD665, 2112, \hDB2F, 3008, \hE1E9, 2944, \hE816, 1280, \hEAFB, 1600,
  \hEE11, 1024, \hF01E, 1024, \hF217, 2560, \hF7B1, 2624, \hFD19, 1280>>)

Bank36 == Entries(\h36, <<
  \h0000, 2432, \h053A, 1728, \h08C2, 1024, \h0AB5, 2624, \h108B, 1920,
  \h1480, 2048, \h1789, 2048, \h1BFE, 1152, \h1E92, 1216, \h2177, 1344,
  \h24BC, 1984, \h2950, 2560, \h2EB8, 1280, \h3162, 1600, \h3442, 2496,
  \h39AF, 2048, \h3E0B, 2880, \h43FD, 2752, \h4A00, 1024, \h4BC5, 1536,
  \h4EE2, 2688, \h5518, 2368, \h5A9D, 2560, \h601C, 2048, \h649C, 2432,
  \h69BE, 2688, \h6F9E, 2368, \h7481, 2304, \h793F, 2432, \h7E34, 1024,
  \h8085, 1216, \h830B, 1024, \h8546, 1344, \h8825, 1536, \h8AD6, 2048,
  \h8FF6, 2048, \h9530, 2112, \h9A64, 2112, \h9F9D, 1920, \hA3FE, 2048,
  \hA899, 1984, \hACEF, 1792, \hB0C7, 1920, \hB514, 1856, \hB903, 1984,
  \hBD66, 1984, \hC1C0, 2304, \hC6DE, 2048, \hCBAD, 1856, \hCFCF, 1024,
  \hD241, 1664, \hD54A, 1024, \hD783, 1024, \hD9E3, 2944, \hE0A5, 832,
  \hE2A3, 2048, \hE5CF, 2048, \hEBBC, 1024, \hED62, 1216, \hF087, 2048,
  \hF3B9, 832, \hF57C, 1024, \hF79E, 1920, \hFBAA, 1024, \hFDAB, 960>>)

Bank37 == Entries(\h37, <<
  \h0000, 2944, \h0673, 1728, \h0972, 1024, \h0FA8, 1024, \h11D0, 1728,
  \h1534, 1024, \h178F, 3072, \h1D35, 1664, \h2023, 2752, \h260C, 2112,
  \h2B01, 1856, \h2F44, 896, \h310C, 1728, \h343B, 1856, \h3801, 1920,
  \h3C31, 1856, \h4012, 1920, \h4465, 1344, \h479C, 1280, \h4AEF, 1984,
  \h4FC9, 1920, \h5727, 1664, \h5A35, 1920, \h5EF2, 1024, \h611A, 1664,
  \h63E7, 1536, \h667D, 1664, \h6969, 1728, \h6CE6, 1024, \h6EDC, 960,
  \h7196, 1536, \h7428, 1024, \h761A, 1536, \h7934, 2176, \h7EB2, 2944,
  \h8531, 2048, \h89CD, 2816, \h8F82, 2048, \h946B, 2048, \h9918, 1088,
  \h9B25, 1088, \h9D31, 1920, \hA16C, 2240, \hA6A0, 2048, \hAB4C, 1024,
  \hAD96, 1856, \hB21A, 1984, \hB72D, 2176, \hBC5E, 1792, \hBFFF, 1920,
  \hC403, 1856, \hC7AB, 1984, \hCC50, 2240, \hD16D, 1024, \hD361, 1536,
  \hD5F5, 1088, \hD85D, 1856, \hDBFB, 2112, \hE0D2, 1984, \hE51C, 1920,
  \hE901, 2240, \hEE4B, 2176, \hF343, 2816, \hF974, 768, \hFB3B, 1920>>)

Bank38 == Entries(\h38, <<
  \h0000, 2048, \h04B3, 1536, \h0785, 2176, \h0C95, 2624, \h1233, 1920,
  \h168F, 1152, \h1973, 1344, \h1D2B, 1408, \h2099, 1408, \h23F9, 1920,
  \h28C5, 1920, \h2D6F, 2048, \h3186, 1024, \h33C5, 2048, \h374D, 1536,
  \h39D0, 1472, \h3D0D, 2048, \h4232, 1024, \h44AD, 1984, \h495E, 1024,
  \h4B53, 2304, \h509D, 1024, \h52C1, 2240, \h5799, 2112, \h5C5A, 1984,
  \h60FA, 1728, \h6438, 1728, \h6763, 1728, \h6A86, 1728, \h6DB3, 1216,
  \h706C, 1024, \h71E9, 1152, \h7422, 1024, \h763F, 960, \h7826, 1024,
  \h7A23, 960, \h7BFA, 1024, \h7E24, 1024, \h801C, 1024, \h8175, 896,
  \h82E7, 1088, \h8577, 1024, \h8754, 1152, \h8973, 1024, \h8A52, 1024,
  \h8C2E, 896, \h8DCA, 896, \h8FA8, 1024, \h915D, 832, \h92D8, 832,
  \h9456, 832, \h95D8, 1024, \h96EC, 2048, \h9856, 960, \h9A6A, 896,
  \h9C10, 1792, \h9F66, 1728, \hA250, 1024, \hA3B0, 1792, \hA6DA, 1088,
  \hA8FF, 1728, \hAC61, 1728, \hAF8B, 1728, \hB282, 896, \hB416, 960,
  \hB602, 896, \hB7D3, 1216, \hBA79, 1088, \hBCF6, 1792, \hC052, 1856,
  \hC3CA, 1792, \hC70F, 1920, \hCAA9, 1856, \hCDFA, 1856, \hD149, 1792,
  \hD482, 1984, \hD837, 2048, \hDC32, 1792, \hDF86, 1024, \hE0BF, 1856,
  \hE3F9, 1280, \hE619, 1664, \hE8C1, 1792, \hEC1F, 1856, \hEFA6, 1024,
  \hF0EF, 832, \hF28E, 896, \hF45E, 1344, \hF73F, 1792, \hFD1B, 1280>>)

Bank39 == Entries(\h39, <<
  \h0000, 2048, \h03F3, 1792, \h06E8, 1600, \h09FA, 1664, \h0D0B, 1856,
  \h10BF, 1024, \h126C, 1280, \h1569, 896, \h16F8, 1792, \h1A31, 1536,
  \h1C5A, 1344, \h1F2A, 768, \h2054, 1984, \h2425, 1920, \h27AB, 1984,
  \h2B81, 1856, \h2EB4, 1024, \h301E, 1792, \h3336, 896, \h3530, 1664,
  \h383D, 1984, \h3C68, 1728, \h3F5C, 1728, \h4286, 1856, \h45BC, 1280,
  \h48B9, 2048, \h4C25, 896, \h4DD2, 2048, \h50D2, 832, \h5228, 832,
  \h5381, 768, \h54B9, 768, \h55B7, 768, \h56F4, 832, \h5837, 768,
  \h5973, 2112, \h5DA3, 2144, \h61DA, 1856, \h64E9, 1856, \h67EA, 1216,
  \h6A41, 1920, \h6DDA, 1280, \h7023, 1984, \h73E6, 1792, \h7758, 1728,
  \h7A6A, 1024, \h7CD1, 1088, \h7F11, 640, \h7FFC, 1280, \h82E3, 1024,
  \h84BA, 960, \h865C, 1024, \h8881, 1024, \h8A4F, 1024, \h8C24, 1792,
  \h8F6B, 1856, \h92CE, 1856, \h960C, 1856, \h999C, 1408, \h9C7A, 1408,
  \h9F38, 1024, \hA005, 1024, \hA153, 1024, \hA36C, 1472, \hA6A6, 1408,
  \hA9CD, 1856, \hAFF2, 1728, \hB30C, 1664, \hB60E, 1728, \hB90B, 1664,
  \hBC0A, 1152, \hBEE3, 704, \hBFD8, 1024, \hC1FA, 1024, \hC3A2, 1792,
  \hC6ED, 1856, \hCA7E, 1920, \hCE53, 1920, \hD1FA, 1984, \hD5CA, 1792,
  \hD8EE, 1344, \hDB9C, 1920, \hDF47, 1792, \hE27E, 1856, \hE5D4, 1792,
  \hE8FA, 1728, \hEC36, 1856, \hF007, 1664, \hF2E6, 1984, \hF6B2, 1920,
  \hFA69, 1088, \hFCD5, 1664>>)

Bank3A == Entries(\h3A, <<
  \h0000, 1792, \h0319, 1728, \h065A, 1856, \h0A3D, 1920, \h0E0E, 1664,
  \h1121, 1792, \h14A4, 1600, \h16F4, 1920, \h1A98, 1792, \h1DC4, 1728,
  \h20A5, 1792, \h23DE, 1728, \h2708, 1664, \h29FC, 1792, \h2D45, 1664,
  \h304B, 1088, \h32FA, 1664, \h360F, 1024, \h3741, 1920, \h3AEB, 2048,
  \h3EEA, 1728, \h4235, 1664, \h4510, 1856, \h4886, 1792, \h4B33, 1792,
  \h4E41, 1600, \h509D, 1664, \h5357, 1792, \h567A, 1856, \h59A6, 1280,
  \h5C5E, 1024, \h5E85, 1408, \h614D, 960, \h6344, 1792, \h6686, 1856,
  \h6A3C, 1664, \h6D0E, 1728, \h6FFE, 1280, \h7283, 1024, \h7477, 1152,
  \h76D2, 1024, \h78BF, 1472, \h7BF2, 1600, \h7F96, 2048, \h8C9C, 2816,
  \h920E, 2816, \h978C, 2816, \h9D0A, 1760, \hA110, 2624, \hA5F6, 1664,
  \hA8E6, 2688, \hADB9, 1664, \hB038, 2624, \hB467, 2560, \hB96F, 2688,
  \hBE70, 2848, \hC380, 1984, \hC65A, 2688, \hCB39, 2080, \hCF8B, 2112,
  \hD39B, 2688, \hD8F1, 2880, \hDDF5, 1984, \hE0C8, 2752, \hE646, 1664,
  \hEA18, 1664, \hEDE8, 1728, \hF1E3, 2720, \hF5FE, 3072, \hFBEE, 1600>>)

Bank3B == Entries(\h3B, <<
  \h0000, 1728, \h03CD, 2208, \h0825, 2048, \h0BA8, 960, \h0C96, 2624,
  \h11FA, 2624, \h16DA, 2336, \h1BBC, 1952, \h1FB2, 1792, \h23C0, 1920,
  \h27DF, 2752, \h2D03, 2304, \h31E9, 1664, \h35A7, 1312, \h3885, 1312,
  \h3B59, 2368, \h4057, 2176, \h4524, 2368, \h4A6D, 2304, \h4F62, 1856,
  \h52DE, 2368, \h5715, 2912, \h5C8E, 2464, \h6188, 2976, \h6744, 2816,
  \h6CB6, 2176, \h709D, 2400, \h751D, 2624, \h7A1B, 2432, \h7E70, 2976,
  \h8373, 2720, \h887D, 2432, \h8D3C, 1920, \h914D, 2016, \h9590, 2624,
  \h9AD5, 2176, \h9F85, 2304, \hA456, 3040, \hA985, 2208, \hADEA, 2240,
  \hB265, 2624, \hB748, 2688, \hBC09, 2272, \hC047, 2752, \hC575, 2624,
  \hCA86, 2752, \hCFAA, 2656, \hD4C1, 2400, \hD938, 2944, \hDDA2, 2144,
  \hE0DD, 2144, \hE514, 2240, \hE98B, 2528, \hEEBE, 2240, \hF2DF, 2368,
  \hF69E, 2496, \hFB4D, 2176>>)

Bank3E == Entries(\h3E, <<
  \h0E30, 832, \h0EE0, 832, \h0F7E, 560, \h0FAE, 65536>>)

TAGGED ==
  Bank00 \o Bank13 \o Bank14 \o Bank15 \o Bank16 \o Bank17 \o Bank18
  \o Bank19 \o Bank1A \o Bank1B \o Bank1C \o Bank1D \o Bank1E \o Bank20
  \o Bank21 \o Bank22a \o Bank22b \o Bank23 \o Bank24 \o Bank25 \o Bank26
  \o Bank27 \o Bank28 \o Bank29 \o Bank2A \o Bank2B \o Bank2C \o Bank2D
  \o Bank2E \o Bank2F \o Bank30 \o Bank31 \o Bank32 \o Bank33 \o Bank34
  \o Bank35 \o Bank36 \o Bank37 \o Bank38 \o Bank39 \o Bank3A \o Bank3B
  \o Bank3E

\* Two streams the tags do not record.
HARVESTED == <<<<\h19F8FE, 256>>, <<\h1BED29, 64>>>>

STREAMS == SortSeq(TAGGED \o HARVESTED, LAMBDA e, f : e[1] < f[1])
=============================================================================
