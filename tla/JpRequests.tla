----------------------------- MODULE JpRequests -----------------------------
(*****************************************************************************)
(* requests_jp.py: the streams the retail Japanese cartridge was seen to     *)
(* decompress, each with the largest transfer it asked for.                  *)
(*****************************************************************************)
EXTENDS Integers, Sequences

\* The streams of one ROM bank, from their offsets in it and their lengths.
Entries(bank, listed) ==
  [i \in 1 .. Len(listed) \div 2 |->
    <<65536 * bank + listed[2 * i - 1], listed[2 * i]>>]

Bank13 == Entries(\h13, <<
  \h0000, 1152, \h02EF, 8192, \h0E9D, 2048, \h1150, 2048, \h1BC2, 3488,
  \h223B, 3008, \h2814, 2304, \h2C08, 1056, \h2D8B, 2048, \h2DC0, 2048,
  \h2E7E, 2048, \h2F4B, 2048, \h30FD, 2048, \h331A, 2048, \h33F7, 2048,
  \h34D7, 2048, \h357E, 2048, \h35F9, 4000, \h39DC, 2048, \h3AA6, 2048,
  \h3C0A, 2048, \h3DD8, 2048, \h3F37, 2048, \h40C4, 2048, \h41B1, 2048,
  \h42AD, 2048, \h4327, 19008, \h72B4, 8192, \h7B2E, 26368, \hBD6C, 1536,
  \hC129, 8192, \hCB9F, 17920, \hF22F, 8192, \hFB7D, 2048>>)

Bank14 == Entries(\h14, <<
  \h000F, 24576, \h3C56, 1024, \h3E7C, 1120, \h406C, 8192, \h4AB9, 28832,
  \h8920, 8192, \h915D, 27584, \hD663, 8192, \hE1E1, 8192, \hEC85, 8192>>)

Bank15 == Entries(\h15, <<
  \h0011, 22368, \h38E6, 25248, \h78C4, 2144, \h7DC5, 8192, \hD056, 8192,
  \hD7FD, 8192, \hE0AF, 8192, \hE82D, 8192, \hEFBB, 8192, \hF462, 5408>>)

Bank16 == Entries(\h16, <<
  \h4C2B, 32000, \h9A65, 8192, \hE2AE, 8192, \hEAD2, 8192, \hF177, 8192,
  \hF7CF, 5120>>)

Bank17 == Entries(\h17, <<
  \h52AF, 19904, \h8393, 352, \h848A, 8192, \h8EAC, 27776, \hD096, 512,
  \hD1F9, 8192, \hEF0E, 4064, \hF875, 3392>>)

Bank18 == Entries(\h18, <<
  \h4D5F, 23200, \h8898, 3104, \h909A, 8192, \h9B97, 26016, \hD846, 8192,
  \hE292, 8960, \hF7E3, 8192>>)

Bank19 == Entries(\h19, <<
  \h0011, 8192, \h0B01, 8192, \h104C, 8192, \h1580, 8192, \h1E58, 8192,
  \h24A1, 8192, \h2B62, 8192, \h3162, 8192, \h381F, 8192, \h40F2, 8192,
  \h53DE, 4096, \h572A, 4096, \h644B, 4096, \h6791, 4096, \h6AD4, 4096,
  \h6E14, 4096, \h7530, 2048, \h7641, 1984, \h76E4, 2048, \h780D, 2016,
  \h78EA, 3584, \h7D3B, 480, \h7E06, 7360, \h8A11, 832, \h8B2B, 3584,
  \h9229, 4096, \h994F, 2048, \h9EBB, 1120, \hA0F0, 1024, \hA380, 800,
  \hA579, 1088, \hABC6, 832, \hADA3, 800, \hB1D6, 1664, \hB4B8, 6144,
  \hBEA7, 2048, \hC45E, 2048, \hC795, 6656, \hD94C, 2048, \hE218, 3104,
  \hE557, 8192, \hF6E0, 1024, \hF7E5, 1024>>)

Bank1A == Entries(\h1A, <<
  \h0008, 2656, \h052A, 2048, \h05DC, 1024, \h06E4, 2048, \h07B5, 4608,
  \h1596, 768, \h1798, 768, \h19F1, 1600, \h2243, 256, \h2248, 3936,
  \h2A1F, 64, \h2A4E, 4032, \h3041, 3168, \h37FC, 1024, \h39B6, 3008,
  \h44B7, 3328, \h4C0B, 3520, \h754D, 4064, \h90CE, 3488, \h987E, 2784,
  \hA810, 3808, \hB840, 704, \hB945, 704, \hBA27, 704, \hBEFD, 704,
  \hC1E9, 704, \hC2DD, 704, \hC4BC, 704, \hC5A6, 704, \hC86D, 3986,
  \hCCD1, 6144, \hD536, 1088>>)

Bank1B == Entries(\h1B, <<
  \hC600, 4096, \hCCCE, 4096, \hD365, 4096, \hD927, 1472, \hDA56, 5920,
  \hE91C, 2048, \hEC29, 2048, \hED10, 64, \hED15, 7936, \hF944, 3840>>)

Bank1C == Entries(\h1C, <<
  \h0000, 2304, \h0434, 2144, \h0864, 1088, \h09E4, 2560, \h0EF6, 3040,
  \h1560, 3040, \h1A4B, 3040, \h210C, 2816, \h2782, 2752, \h2C78, 960,
  \h2EBE, 992, \h3125, 896, \h3329, 960, \h3556, 832, \h373C, 1024,
  \h39AF, 864, \h3B50, 768, \h423E, 1024, \h4497, 928, \h46BF, 1024,
  \h486C, 832, \h49C7, 896, \h4B3C, 1024, \h4DC7, 960, \h4FCF, 704,
  \h50E4, 1024, \h52A2, 768, \h53F2, 960, \h5584, 864, \h58BF, 896,
  \h5AA0, 768, \h5E7F, 992, \h60B7, 1024, \h62CF, 768, \h641B, 992,
  \h662F, 992, \h679A, 704, \h68AA, 640, \h69D0, 640, \h6ADD, 640,
  \h6BDB, 704, \h6D3A, 800, \h6E7F, 864, \h7030, 800, \h71D0, 832,
  \h7391, 832, \h7562, 992, \h77E4, 992, \h7A57, 768, \h7C3A, 896,
  \h7E51, 992, \h80A1, 768, \h8225, 704, \h8325, 864, \h8507, 704,
  \h867A, 960, \h8885, 960, \h8A77, 1024, \h8C51, 1024, \h8E1F, 768,
  \h8F3F, 896, \h9107, 960, \h9322, 1024, \h94EA, 1024, \h96BC, 896,
  \h9B84, 832, \h9D7D, 928, \hA2D5, 896, \hA7B4, 704, \hA8EB, 832,
  \hAA4E, 1024, \hAC73, 832, \hB65C, 832, \hB795, 832, \hB933, 832,
  \hBF0C, 832, \hC09A, 832, \hC1AE, 768, \hC2AD, 896, \hC3AA, 640,
  \hC540, 1024, \hC7BD, 832, \hC960, 640, \hCA6B, 704, \hCB99, 1024,
  \hCE7E, 928, \hD11C, 992, \hD3BC, 960, \hD548, 704, \hD67D, 1024,
  \hD95E, 992, \hDC0B, 992, \hE734, 1024, \hE8B5, 1024, \hE94D, 1856,
  \hEC88, 576, \hED39, 768, \hFA00, 768>>)

Bank1D == Entries(\h1D, <<
  \h0611, 992, \h0837, 864, \h0999, 896, \h0B34, 896, \h0C90, 1408,
  \h0F01, 1312, \h1224, 832, \h1367, 640, \h144A, 1344, \h175D, 960,
  \h18F4, 896, \h1AC5, 1024, \h1D1A, 1024, \h1F89, 1408, \h30BD, 896,
  \h34C0, 896, \h3667, 1024, \h3A49, 928, \h3E40, 896, \h4081, 1024,
  \h42D3, 1024, \h4552, 992, \h47A4, 768, \h492D, 768, \h4A5C, 832,
  \h4C46, 768, \h4DCE, 832, \h4F5F, 928, \h5110, 896, \h5846, 768,
  \h5958, 768, \h5AF9, 768, \h5C92, 768, \h5E28, 768, \h5FA3, 768,
  \h609C, 576, \h6189, 640, \h6269, 704, \h639B, 928, \h6554, 800,
  \h6695, 768, \h6826, 704, \h7169, 1184, \h739A, 1504, \h76C8, 1536,
  \hA0E1, 1024, \hA2E7, 768, \hA43A, 768, \hA581, 768, \hBAE7, 1024,
  \hBD8F, 288, \hBE33, 1024, \hC939, 960, \hCB61, 1024, \hCDA6, 320,
  \hF578, 2592, \hF9D9, 640, \hFB04, 2048, \hFC0B, 2048, \hFD5E, 2048,
  \hFEAB, 2048, \hFFF1, 64>>)

Bank1E == Entries(\h1E, <<
  \h0000, 10752, \h18F8, 22400, \h3E22, 2048, \h3FA6, 2048, \h40AF, 2048,
  \h41C7, 256, \h421C, 2048, \h42D4, 864, \h446F, 6976, \h4ED8, 1920,
  \h5136, 3648, \h5764, 2688, \h5A08, 1536, \h5D27, 2048, \h5E2A, 2048,
  \h5EE0, 2048, \h5F8A, 2048, \h5FF7, 2048, \h613E, 2048, \h628D, 2048,
  \h643E, 2048, \h6B31, 2048, \h6C9B, 672, \h6E5B, 2048, \h6F70, 1088,
  \h707D, 2048, \h7196, 2048, \h7245, 4608, \h7A45, 8192, \h86DB, 3680,
  \h8E07, 3072, \h9362, 3072, \h97CC, 4096, \hA053, 2048, \hA445, 1024,
  \hA62C, 2048, \hA854, 2048, \hAAA3, 2048, \hADA7, 2048, \hAFB2, 2048,
  \hB1D5, 64, \hB1EB, 320, \hB236, 4608, \hBBAC, 2048, \hBCA8, 22464,
  \hF0D8, 2048, \hF2B8, 2048, \hF4A3, 2048, \hF6E0, 2048, \hF953, 2048,
  \hFA55, 2048, \hFB57, 4096, \hFEDB, 512>>)

Bank20 == Entries(\h20, <<
  \h0000, 1568, \h0427, 1600, \h0865, 1664, \h0CAD, 1472, \h106F, 1280,
  \h1416, 1504, \h17FD, 1632, \h1BEF, 1664, \h202E, 1920, \h246A, 1184,
  \h27AB, 992, \h2A75, 1664, \h2E09, 1440, \h31C8, 1536, \h35D1, 1888,
  \h3AAB, 1728, \h3F23, 1888, \h43EA, 1888, \h4914, 1664, \h4D0D, 1024,
  \h4FBD, 768, \h51AF, 1632, \h560B, 2016, \h5B3D, 1408, \h5EEC, 1632,
  \h6312, 1024, \h6704, 1024, \h6A4C, 1088, \h6D51, 1152, \h704D, 1120,
  \h7371, 1216, \h76A9, 1248, \h79FD, 1888, \h7F56, 1504, \h8334, 1504,
  \h86D3, 1536, \h8ADD, 1088, \h8DD3, 1504, \h9439, 1600, \h986E, 1696,
  \h9C7F, 1024, \hA0A6, 1024, \hA51B, 1024, \hABC9, 1184, \hAEA1, 1248,
  \hB198, 1120, \hB453, 1600, \hB753, 1344, \hBA54, 1184, \hBD3A, 1152,
  \hC079, 1248, \hC3DF, 1024, \hC757, 1024, \hCBAD, 1024, \hD03D, 1248,
  \hD3CB, 1280, \hD73E, 1024, \hDA9E, 1600, \hDE96, 1120, \hE18A, 1536,
  \hE887, 1024, \hEC15, 1024, \hEF6E, 1024, \hF688, 1024, \hF941, 1280,
  \hFC7A, 1472>>)

Bank21 == Entries(\h21, <<
  \h0366, 1536, \h0757, 1248, \h0AB0, 1376, \h0E14, 1536, \h11B3, 1088,
  \h1484, 1472, \h280D, 1824, \h2CAA, 1024, \h3094, 1024, \h33B7, 1024,
  \h3755, 1024, \h3A3F, 1024, \h3DDE, 1024, \h40B3, 1024, \h4346, 1536,
  \h4762, 1248, \h4AA5, 2016, \h4F7E, 1184, \h5283, 896, \h54E9, 1024,
  \h5823, 1536, \h5C0E, 1536, \h601E, 1664, \h642E, 1728, \h68A7, 1024,
  \h6BB8, 1536, \h6F9D, 1408, \h7330, 1664, \h7727, 1344, \h7AC7, 1408,
  \h7E76, 1600, \h823B, 1440, \h9EFD, 1024, \hA136, 992, \hA3CA, 1280,
  \hA6B6, 1856, \hAB33, 1824, \hAF00, 1792, \hB32D, 1120, \hB5D2, 1184,
  \hB90F, 1664, \hC065, 1152, \hC2C8, 1056, \hC508, 1600, \hC882, 1280,
  \hCBCA, 1056, \hCEAA, 1600, \hD1D4, 1248, \hD4DB, 1504, \hD83A, 1440,
  \hDB98, 1600, \hE7F1, 1664, \hF5FF, 832, \hF81D, 704, \hFA26, 704,
  \hFC24, 416, \hFD42, 352, \hFE47, 640>>)

Bank22 == Entries(\h22, <<
  \h0000, 352, \h010E, 320, \h0211, 416, \h0338, 640, \h04BB, 416,
  \h05D8, 768, \h07FC, 384, \h08EA, 416, \h09F2, 544, \h0B5A, 1856,
  \h0F3E, 992, \h1110, 736, \h129E, 1664, \h16AA, 1664, \h1AB4, 576,
  \h1C0E, 992, \h1EC9, 640, \h20A6, 512, \h2470, 128, \h24DA, 384,
  \h25F2, 288, \h26C8, 384, \h29F0, 544, \h2B61, 992, \h2E1C, 448,
  \h2F61, 416, \h30AF, 320, \h31B6, 608, \h3605, 736, \h37F1, 672,
  \h3CD4, 800, \h4072, 448, \h41A2, 448, \h42C3, 480, \h4430, 672,
  \h45BB, 736, \h4761, 384, \h4854, 416, \h4973, 416, \h4DB6, 448,
  \h4EF3, 416, \h501D, 672, \h51D9, 320, \h52BF, 384, \h53A9, 320,
  \h547D, 864, \h569D, 448, \h57EB, 608, \h5C88, 768, \h5E67, 320,
  \h5F3F, 384, \h6025, 512, \h6173, 352, \h67AA, 384, \h68CA, 928,
  \h6AE8, 544, \h6C54, 352, \h6D3E, 160, \h6DB7, 416, \h6ED6, 416,
  \h75A7, 576, \h7727, 832, \h7961, 704, \h7B09, 384, \h7C29, 704,
  \h7DF4, 640, \h7F68, 704, \h8139, 736, \h8337, 736, \h8528, 320,
  \h85F8, 544, \h873A, 384, \h884B, 640, \h89BC, 640, \h8AB3, 352,
  \h8BAA, 352, \h8CB1, 576, \h8E0A, 512, \h9A40, 736, \h9C3E, 896,
  \h9E83, 800, \hA083, 864, \hA8A8, 320, \hA989, 352, \hAA81, 352,
  \hAB72, 320, \hAC4D, 640, \hAD95, 288, \hAE73, 320, \hAF4E, 384,
  \hB052, 640, \hB1E9, 352, \hB2EA, 1280, \hB60A, 1664, \hBA03, 512,
  \hC1C9, 1024, \hC498, 960, \hCA36, 576, \hCB51, 608, \hCCF0, 512,
  \hCE62, 576, \hCFEE, 256, \hD0AE, 416, \hD281, 64, \hD2BA, 320,
  \hD6BB, 384, \hD7C4, 480, \hD90B, 288, \hDE59, 928, \hE5F3, 768,
  \hF362, 288, \hF5C4, 640, \hF6DC, 864, \hF932, 288, \hFA13, 704,
  \hFBD0, 256, \hFDFD, 352, \hFEF5, 384>>)

Bank23 == Entries(\h23, <<
  \h071C, 1024, \h0975, 608, \h0B1B, 256, \h0BC6, 704, \h0D99, 448,
  \h0EB7, 704, \h1060, 704, \h122B, 384, \h1348, 544, \h14B9, 672,
  \h1664, 1088, \h194D, 1920, \h1D5D, 1600, \h214C, 1664, \h254E, 1216,
  \h2884, 1728, \h2C96, 1792, \h30B3, 1792, \h34C9, 1760, \h38E9, 1728,
  \h3D0A, 1984, \h4445, 1536, \h477F, 1472, \h4AC8, 1728, \h4E0D, 1728,
  \h51CC, 832, \h53D4, 832, \h55B8, 1728, \h59A4, 1664, \h5D4F, 704,
  \h5ED3, 704, \h604C, 1600, \h63E4, 576, \h654C, 2048, \h6ABA, 2016,
  \h6FB4, 1728, \h73DE, 1728, \h77DF, 1792, \h7BE8, 1728, \h8007, 1696,
  \h840A, 1920, \h887D, 1408, \h8BEC, 1600, \h8F43, 1376, \h92C3, 1984,
  \h97D1, 832, \h9A0D, 864, \hA012, 1696, \hA40D, 1728, \hA833, 1664,
  \hABAB, 1792, \hB1EB, 1664, \hB5E5, 1824, \hBA43, 1824, \hBEA7, 1792,
  \hC713, 1728, \hCAFE, 1600, \hD318, 1600, \hD6DE, 1664, \hDDB2, 1216,
  \hE06F, 1760, \hE470, 1760, \hE85E, 1920, \hED1A, 1792, \hF177, 1824,
  \hF93B, 1024, \hFD32, 992>>)

Bank24 == Entries(\h24, <<
  \h0000, 1344, \h0367, 640, \h147D, 1760, \h187C, 1280, \h1BC3, 1600,
  \h1F62, 1792, \h231B, 1280, \h25EC, 1600, \h29E7, 1440, \h2D6F, 1664,
  \h3133, 1664, \h34FC, 1696, \h38E2, 1888, \h3D75, 1952, \h4240, 1664,
  \h4652, 1888, \h4A6C, 832, \h4C0D, 1760, \h50A8, 1600, \h5436, 1920,
  \h582D, 1664, \h5B62, 1664, \h5F3E, 1408, \h625B, 1792, \h665A, 1696,
  \h6A2C, 1344, \h6D94, 1984, \h728B, 1728, \h766C, 1280, \h796F, 1600,
  \h7C79, 1600, \h7F94, 1216, \h8283, 1920, \h86F1, 1952, \h8B67, 1856,
  \h8F9E, 1952, \h9420, 1088, \h96B0, 1056, \h9B3A, 960, \h9DA2, 1184,
  \hA06F, 832, \hA278, 1216, \hA52E, 832, \hA6D0, 768, \hB2C8, 1248,
  \hB5BE, 2048, \hBA4E, 1184, \hBD06, 1280, \hC013, 2048, \hC4A0, 1728,
  \hC7E2, 1600, \hCDDA, 1280, \hD086, 1248, \hD36C, 1152, \hDAD0, 896,
  \hDD12, 960, \hE319, 1152, \hE5DA, 1248, \hE8C7, 864, \hEAE5, 1024,
  \hED29, 1600, \hF076, 1664, \hF3CD, 1312, \hF694, 1344, \hF966, 1600,
  \hFCBB, 1280>>)

Bank25 == Entries(\h25, <<
  \h0000, 1216, \h02B6, 1120, \h0540, 1664, \h084A, 1600, \h0B5A, 1120,
  \h0DD6, 928, \h0FD4, 1920, \h1455, 1088, \h16F4, 1120, \h19CC, 1216,
  \h1CD2, 1280, \h1FF0, 928, \h2258, 1024, \h24FC, 832, \h2709, 1120,
  \h299C, 896, \h2BC6, 1024, \h2E48, 1184, \h310E, 1600, \h465E, 1056,
  \h4904, 1280, \h4C14, 1152, \h4ED8, 1248, \h51C6, 1120, \h5DBB, 1664,
  \h614B, 640, \h6268, 768, \h63DF, 704, \h650B, 1664, \h683E, 768,
  \h69C3, 992, \h6C1E, 1184, \h6EDE, 992, \h711C, 960, \h7345, 1312,
  \h7625, 1344, \h7931, 1248, \h7C21, 1184, \h7ECD, 1248, \h81AE, 1664,
  \h84DA, 1248, \h87B9, 1056, \h8A15, 1184, \h8CCC, 1600, \h8FE1, 1248,
  \h929C, 1152, \h952E, 1376, \h9DAC, 1120, \hA51B, 1248, \hA7DF, 1120,
  \hAA8D, 1344, \hAD74, 1664, \hB0BE, 1248, \hB6CB, 1984, \hBB54, 1600,
  \hBF64, 1664, \hC372, 1728, \hC7AC, 2048, \hCD21, 2048, \hD1C6, 1024,
  \hD41F, 1856, \hD8A6, 864, \hDAC2, 1664, \hDEF2, 1952, \hE2D3, 1312,
  \hE656, 1856, \hEAE3, 2048, \hF04D, 1312, \hF3D5, 1664, \hFAE4, 1952>>)

Bank26 == Entries(\h26, <<
  \h04CB, 1312, \h0811, 960, \h1558, 1600, \h1C68, 1728, \h2044, 1792,
  \h24B5, 768, \h268D, 1824, \h2B02, 1664, \h2EE2, 1216, \h3257, 1664,
  \h3664, 1248, \h39B1, 1312, \h3D19, 1216, \h4053, 1728, \h4488, 1728,
  \h4872, 1728, \h4CA8, 1728, \h50F6, 1312, \h5456, 1312, \h577B, 1184,
  \h5A71, 1600, \h5E37, 1600, \h61EE, 1600, \h6D88, 1664, \h718D, 1696,
  \h7607, 1216, \h7964, 1600, \h88E5, 1664, \h8CEB, 1248, \h9455, 1280,
  \h97FB, 1664, \h9C4E, 1600, \h9FDD, 1664, \hA3AD, 1600, \hA71D, 1600,
  \hAB02, 2048, \hB3F7, 1248, \hB749, 1664, \hBB4D, 1312, \hBEC4, 1312,
  \hCD84, 1248, \hD0DA, 1600, \hD4B3, 1600, \hD877, 2016, \hE56E, 1728,
  \hF878, 1376, \hFBAF, 1728>>)

Bank27 == Entries(\h27, <<
  \h0000, 1536, \h0383, 1664, \h0769, 1536, \h0B4B, 1920, \h0F10, 1600,
  \h12D2, 1504, \h16B4, 1600, \h1A8F, 1248, \h1E1A, 1600, \h21AB, 1728,
  \h4500, 1600, \h7918, 1024, \h7A5B, 1024, \h7BCD, 1024, \h7D61, 1024,
  \h7F3D, 1024, \h80FE, 960, \h82EB, 1024, \h8421, 1024, \h863A, 1024,
  \h875A, 1024, \h8947, 1024, \h8AE7, 960, \h8CDC, 1024, \h8DBD, 1024,
  \h8E97, 1024, \h90BF, 1024, \h9273, 1024, \h93BD, 1024, \h958A, 1024,
  \h9887, 1024, \h9AE0, 960, \h9D2A, 1024, \h9FD3, 896, \hA1DA, 896,
  \hA3B5, 768, \hA546, 832, \hA702, 960, \hA8A9, 832, \hAA00, 896,
  \hABD5, 896, \hAE13, 896, \hAFE9, 1088, \hB296, 960, \hB514, 896,
  \hB8D7, 896, \hBAD5, 1728, \hBE59, 768, \hBFD1, 768, \hC122, 1024,
  \hC39D, 768, \hC963, 1152, \hCC33, 1024, \hCEE3, 1280, \hD227, 1216,
  \hD8D7, 896, \hDB19, 1216, \hDDE7, 896, \hE002, 832, \hE207, 1088,
  \hE4FD, 1024, \hE7E1, 1152, \hEAE9, 1344, \hEE49, 1216, \hF165, 896,
  \hF3B3, 1280, \hF709, 1728, \hFAA2, 1344, \hFDE6, 896>>)

Bank28 == Entries(\h28, <<
  \h0000, 1728, \h037D, 1728, \h0709, 1792, \h0E7C, 1344, \h11CB, 1280,
  \h185F, 832, \h19D9, 832, \h1B6F, 1280, \h1E95, 1344, \h21C0, 1728,
  \h2513, 1088, \h27CA, 1216, \h2ABA, 1024, \h2DA6, 1408, \h3121, 1408,
  \h3493, 1088, \h374C, 1216, \h44D1, 1024, \h4A1E, 896, \h4C39, 1216,
  \h4F66, 1280, \h528B, 1600, \h55D3, 1280, \h58AC, 1216, \h5B92, 1664,
  \h5EE5, 1088, \h61B0, 1728, \h651B, 1728, \h71B9, 896, \h73A4, 960,
  \h75C1, 1216, \h7893, 704, \h795A, 768, \h7ACD, 1792, \h7E9B, 1792,
  \h874A, 1728, \h8AE5, 1152, \h8DC2, 1728, \h90F3, 1792, \hAAAA, 1664,
  \hAE0F, 1408, \hB1A7, 1792, \hB8DC, 1344, \hC203, 1152, \hC48D, 1728,
  \hC7E6, 1152, \hCAC1, 1664, \hCDFF, 1152, \hDB1F, 1216, \hDE37, 1216,
  \hE144, 1984, \hE5FE, 1984, \hEABC, 1920, \hEF67, 1536, \hF326, 2048,
  \hF7F6, 2048>>)

Bank29 == Entries(\h29, <<
  \h0000, 2304, \h0553, 2048, \h0A1A, 1856, \h0E59, 1216, \h117B, 1856,
  \h1582, 1408, \h39B6, 1024, \h3B96, 1024, \h3FEA, 1472, \h433A, 2048,
  \h47C2, 1920, \h4C14, 896, \h4E57, 1152, \h5101, 1920, \h54F6, 1408,
  \h57C9, 1408, \h5ADF, 1984, \h6C0E, 2176, \h70EF, 1664, \h74B6, 1408,
  \h77D1, 1984, \h7C22, 2176, \h8127, 2560, \h86E8, 2176, \h8BD2, 2176,
  \h9069, 960, \h926C, 1920, \h969A, 1920, \h9ADC, 1024, \hB6DF, 1152,
  \hB997, 1792, \hD2D3, 1280, \hEC88, 1024, \hEE86, 1024, \hF039, 1024,
  \hF1D2, 1280, \hF4D3, 1280, \hF7AB, 1408, \hFABB, 832, \hFCBF, 832>>)

Bank2A == Entries(\h2A, <<
  \h0000, 896, \h0219, 1408, \h0580, 1920, \h096F, 1984, \h0DB7, 1920,
  \h11C3, 1920, \h15F5, 1216, \h18B8, 1920, \h1CAC, 1536, \h554E, 1600,
  \h58FB, 1760, \h5D2E, 1888, \h61BE, 1664, \h65D5, 1600, \h7DFC, 1952,
  \h8252, 2016, \h85F1, 1696, \h898F, 1600, \h8CFB, 1664, \h904B, 1760,
  \h93C1, 1600, \h96AF, 1728, \hA172, 1536, \hB299, 2240, \hBE58, 1504,
  \hC1B7, 1600, \hC4EB, 1600, \hC835, 1344, \hCB63, 1600, \hCE88, 1600,
  \hD1DA, 1664, \hD4FD, 1728, \hD8AF, 1184, \hDB09, 1216, \hEFDF, 1728,
  \hF397, 2048, \hF781, 2048, \hFC33, 1728>>)

Bank2B == Entries(\h2B, <<
  \h0398, 2240, \h0826, 1728, \h1FF3, 1664, \h267D, 1600, \h298D, 1216,
  \h2C63, 2048, \h3106, 1952, \h3B9B, 1632, \h4238, 1312, \h44FD, 1952,
  \h5ED9, 1216, \h618C, 1600, \h64F0, 1056, \h6769, 1728, \h6ACA, 1888,
  \h6EC0, 2496, \h738B, 1984, \h77D6, 2112, \hA3DE, 1760, \hA7AD, 1600,
  \hAAA9, 1376, \hADA7, 1664, \hB15A, 1408, \hB4B1, 1664, \hBFC7, 1728,
  \hC333, 1792, \hC6AF, 1600, \hC9D9, 1664, \hCD33, 1696, \hD08A, 1824,
  \hD42F, 1664, \hD7BB, 1792, \hDBB6, 1792, \hDF6B, 1920, \hE28C, 1728,
  \hE5B8, 704, \hEB02, 1760, \hEE86, 2752, \hF377, 1760, \hF718, 1600,
  \hFA39, 1184, \hFCD3, 1248>>)

Bank2C == Entries(\h2C, <<
  \h0000, 1280, \h02CD, 1376, \h05D1, 1280, \h08C6, 1344, \h0C1F, 1312,
  \h0F4B, 1344, \h1286, 1312, \h15BA, 1344, \h18F1, 1280, \h1C12, 1024,
  \h1EDA, 1408, \h2230, 1216, \h2547, 1024, \h282B, 1344, \h2B76, 1472,
  \h2ECD, 1472, \h3245, 736, \h3478, 1280, \h37AB, 1056, \h3A45, 928,
  \h3CB3, 1376, \h4016, 1088, \h42EB, 1472, \h461B, 1024, \h4882, 928,
  \h4AA7, 1088, \h4D4B, 1728, \h5101, 1120, \h5399, 1088, \h564F, 1824,
  \h5AA8, 1056, \h5D41, 1184, \h5FE7, 864, \h622A, 1152, \h64FD, 992,
  \h6763, 1152, \h6A0C, 1088, \h6CB1, 704, \h6E9C, 992, \h7134, 960,
  \h735F, 928, \h75C1, 1920, \h7A5E, 832, \h7C27, 1600, \h7F30, 1600,
  \h8286, 1184, \h8575, 1216, \h8831, 864, \h8A79, 896, \h8CF5, 1376,
  \h9045, 1344, \h9385, 1024, \h962F, 896, \h9899, 992, \h9E5D, 1184,
  \hA13F, 1152, \hA402, 1184, \hA6FA, 1376, \hAA2A, 1376, \hAD6F, 1312,
  \hB09B, 1248, \hB6ED, 1152, \hB98F, 1056, \hBC2C, 1344, \hBF22, 1376,
  \hC224, 1248, \hC4FF, 1408, \hC808, 1600, \hCB25, 1120, \hCDB9, 1376,
  \hD0EB, 1088, \hD38A, 896, \hD5C3, 1248, \hD88C, 1056, \hDB28, 1792,
  \hDF0A, 1056, \hE1DA, 1440, \hE577, 1152, \hE867, 1024, \hEB13, 1248,
  \hEE11, 1280, \hF0FE, 1600, \hF444, 1376, \hF783, 1184>>)

Bank2D == Entries(\h2D, <<
  \h17AF, 1408, \h1AD6, 1184, \h1DCA, 1152, \h2079, 1152, \h231E, 1056,
  \h2597, 1184, \h2888, 1184, \h30EE, 832, \h3326, 1088, \h35D0, 896,
  \h37FC, 800, \h3A2B, 1088, \h3CD0, 864, \h3F19, 832, \h6262, 1024,
  \h64D4, 1248, \h67CC, 1152, \h6A98, 1824, \h6ED9, 1248, \h71C3, 1152,
  \h7484, 1280, \h8D04, 1056, \h92E9, 2048, \h95E3, 2048, \h990B, 768,
  \h9A9E, 672, \h9BA0, 1600, \h9E9E, 2048, \hA26F, 768, \hA402, 1696,
  \hA832, 1760, \hAC66, 1760, \hB06F, 1696, \hB458, 1088, \hB740, 1664,
  \hBB08, 1888, \hBEA7, 1504, \hC41B, 1600, \hC7FF, 1600, \hCBA0, 1600,
  \hCEF1, 1472, \hD5C1, 1312, \hD909, 1600, \hDD44, 1856, \hE8DC, 1216,
  \hEC15, 1728, \hF041, 1792, \hF427, 1728, \hF819, 1664, \hFBCE, 1920>>)

Bank2E == Entries(\h2E, <<
  \h0000, 1952, \h0471, 864, \h0666, 1216, \h0940, 1216, \h1B51, 1792,
  \h1F4D, 1152, \h222C, 1248, \h2511, 1344, \h2812, 1760, \h2C4C, 1856,
  \h309D, 1600, \h348F, 1984, \h3850, 704, \h44D0, 1600, \h483D, 1184,
  \h4B1B, 2048, \h4F81, 800, \h511B, 1600, \h5B78, 1280, \h5EA7, 1696,
  \h6271, 640, \h63FE, 1088, \h6A1C, 1184, \h6D23, 1152, \h7FD0, 704,
  \h9E65, 1664, \hA23E, 1760, \hA65C, 800, \hA899, 1248, \hABC6, 1472,
  \hAC48, 832, \hB585, 1280, \hB8AF, 1248, \hBB74, 1216, \hC792, 1344,
  \hCABB, 1312, \hCD82, 1600, \hD432, 1216, \hD6EF, 1216, \hD9BA, 1504,
  \hDCEF, 1600, \hE02D, 1600, \hE34B, 1312, \hE621, 1600, \hE97B, 1792>>)

Bank2F == Entries(\h2F, <<
  \h0064, 704, \h163D, 1600, \h19DC, 1056, \h1C58, 928, \h1E9A, 1024,
  \h2108, 2048, \h2550, 1920, \h298D, 1920, \h2DB5, 1984, \h3201, 1504,
  \h3555, 1600, \h38A7, 640, \h399B, 1600, \h3CEB, 1984, \h411F, 1984,
  \h4522, 1728, \h48C0, 1792, \h4C9B, 1952, \h5370, 1216, \h5629, 1248,
  \h6BD1, 1664, \h6F4F, 1024, \h71AE, 1344, \h74D0, 1664, \h7831, 768,
  \h79F4, 1664, \h7D71, 832, \h7F6B, 1792, \h846B, 768, \hAAF7, 1664,
  \hAEAD, 1856, \hB259, 1792, \hB634, 1728, \hB9E7, 1408, \hBD0E, 768,
  \hBEA8, 1600, \hC1A6, 1664, \hC54F, 1600, \hC87C, 1728, \hCBC0, 1728,
  \hD3D1, 1792, \hDAD4, 1728, \hDE86, 1280, \hE157, 1920, \hE5A1, 2048,
  \hEA41, 1984, \hEE20, 1856, \hF1F7, 2048, \hF64D, 1024, \hF87B, 2048>>)

Bank30 == Entries(\h30, <<
  \h07B6, 1312, \h0AAF, 1856, \h0E7D, 2016, \h1330, 1856, \h16E7, 2048,
  \h1B32, 1920, \h1F6D, 704, \h2EA4, 1440, \h31CB, 1600, \h3509, 1216,
  \h37B5, 1440, \h3AEC, 1152, \h4EDF, 1024, \h5395, 1664, \h56CE, 640,
  \h57D4, 1728, \h5B1E, 1024, \h5D5B, 1824, \h6156, 1024, \h87C3, 1824,
  \h8BDF, 2176, \h9039, 1184, \h92A7, 992, \hCEA9, 2336, \hD385, 2240>>)

Bank32 == Entries(\h32, <<
  \h1FAE, 1984, \h2548, 2080, \h2AF4, 1984, \h3074, 1792, \h3523, 2208,
  \h3AC4, 2176, \h403B, 2176, \h45C6, 2304, \h4B87, 2112, \h50C0, 2176,
  \h5651, 2016, \h5B7F, 1792, \h5FA6, 1664, \h6375, 1728, \h6755, 2176,
  \h6F52, 896, \h9D18, 2208, \hA2E0, 2624, \hA93D, 2048, \hAEAB, 2272,
  \hB47B, 1984, \hB996, 1216, \hBD12, 1728, \hC19B, 1952, \hD168, 1824,
  \hD68C, 2368, \hEE0E, 2624, \hFAB0, 2144>>)

Bank33 == Entries(\h33, <<
  \h0000, 2048, \h0526, 1664, \h0880, 2048, \h0E0E, 2432, \h141B, 1760,
  \h18FF, 1024, \h1F26, 1472, \h223E, 2112, \h2758, 2432, \h2CEC, 2272,
  \h32E4, 1024, \h3DB6, 768, \h48DD, 1728, \h4D38, 2496, \h5DAF, 1792,
  \h6219, 2144, \h71C9, 2176, \h76AE, 2272, \h7C08, 1792, \h8A38, 1952,
  \h8F2C, 2496, \h953D, 2176, \h9A44, 2080, \h9FC9, 2624, \hA5CA, 2368,
  \hABBD, 2624, \hB1F6, 2624, \hBC91, 2272, \hC1D2, 2368, \hC711, 2624,
  \hCCB6, 1600, \hCFF2, 2208, \hD509, 2080, \hDA49, 2112, \hEFBB, 2912,
  \hF6AE, 1664, \hF9BD, 1248>>)

Bank34 == Entries(\h34, <<
  \h0000, 2272, \h054C, 2144, \h0A24, 1984, \h0E8F, 1312, \h115E, 2368,
  \h16FB, 2368, \h3126, 2624, \h3756, 2624, \h3D5A, 2464, \h430E, 2880,
  \h496F, 2688, \h4F3D, 2624, \h59C2, 1024, \h60B6, 1216, \h631B, 1280,
  \h6595, 1280, \h6806, 1856, \h6B50, 1728, \h6DF4, 1152, \h99F4, 1024,
  \hC9D1, 1856>>)

Bank35 == Entries(\h35, <<
  \h188F, 2048, \h4951, 2048, \h4D79, 2048, \h7489, 1536, \h9417, 1600,
  \h978C, 1888, \hA657, 1024>>)

Bank36 == Entries(\h36, <<
  \h8AD6, 2048, \h8FF6, 2048, \h9530, 2112, \h9A64, 2112, \h9F9D, 1920,
  \hA3FE, 2048, \hA899, 1984, \hACEF, 1792, \hB0C7, 1920, \hBD66, 1984,
  \hC1C0, 2304, \hC6DE, 2048, \hCBAD, 1856, \hCFCF, 1024, \hD241, 1664,
  \hD783, 1024, \hE0A5, 832, \hE2A3, 2048, \hE5CF, 2048, \hEBBC, 1024,
  \hED62, 1216, \hF087, 2048, \hF3B9, 832, \hF57C, 1024, \hF79E, 1920,
  \hFBAA, 1024, \hFDAB, 960>>)

Bank37 == Entries(\h37, <<
  \h0000, 2944, \h0673, 1728, \h0972, 1024, \h0B7A, 1856, \h0FA8, 1024,
  \h11D0, 1728, \h1534, 1024, \h178F, 1024, \h1D35, 1664, \h2023, 2752,
  \h260C, 2112, \h310C, 1728, \h343B, 1856, \h3801, 1920, \h3C31, 1856,
  \h4012, 1920, \h5727, 1664, \h5EF2, 1024, \h611A, 1664, \h63E7, 1536,
  \h667D, 1664, \h6969, 1728, \h6CE6, 1024, \h6EDC, 960, \h7196, 1536,
  \h7428, 1024, \h761A, 1536, \h7934, 2176, \h8F82, 2048, \h946B, 2048,
  \h9D31, 1920, \hA16C, 2240, \hA6A0, 2048, \hAB4C, 1024, \hAD96, 1856,
  \hB21A, 1984, \hB72D, 2176, \hBC5E, 1792, \hBFFF, 1920, \hC403, 1856,
  \hD85D, 1856, \hDBFB, 2112, \hE0D2, 1984, \hE51C, 1920, \hE901, 2240,
  \hEE4B, 2176, \hF343, 2816, \hF974, 768, \hFB3B, 1920>>)

Bank38 == Entries(\h38, <<
  \h0000, 2048, \h1233, 1920, \h168F, 1152, \h1973, 1344, \h1D2B, 1408,
  \h2099, 1408, \h23F9, 1920, \h28C5, 1920, \h4B53, 2304, \h52C1, 2240,
  \h5799, 2112, \h5C5A, 1984, \h60FA, 1728, \h6438, 1728, \h6763, 1728,
  \h6A86, 1728, \h6DB3, 1216, \h706C, 1024, \h71E9, 1152, \h7422, 1024,
  \h763F, 960, \h7826, 1024, \h7A23, 960, \h7BFA, 1024, \h7E24, 1024,
  \h801C, 1024, \h8175, 896, \h82E7, 1088, \h8577, 1024, \h8754, 1152,
  \h8973, 1024, \h8A52, 1024, \h8FA8, 1024, \h915D, 832, \h95D8, 1024,
  \h96EC, 2048, \h9856, 960, \h9A6A, 896, \h9C10, 1792, \h9F66, 1728,
  \hA250, 1024, \hA3B0, 1792, \hA6DA, 1088, \hA8FF, 1728, \hAC61, 1728,
  \hB416, 960, \hB602, 896, \hEC1F, 1856>>)

Bank39 == Entries(\h39, <<
  \h10BF, 1024, \h126C, 1280, \h1569, 896, \h16F8, 1792, \h73E6, 1792,
  \h7758, 1728, \hAFF2, 1728, \hB30C, 1664, \hB60E, 1728, \hB90B, 1664,
  \hBC0A, 1152, \hC3A2, 1792, \hC6ED, 1856, \hF007, 1664, \hF6B2, 1920,
  \hFCD5, 1664>>)

Bank3A == Entries(\h3A, <<
  \h0000, 1792, \h0319, 1728, \h4235, 1664, \h4510, 1856, \h8C9C, 2816,
  \h920E, 2816, \h978C, 2816, \h9D0A, 1760, \hA110, 2624, \hA5F6, 1664,
  \hA8E6, 2688, \hADB9, 1664, \hB038, 2624, \hB467, 2560, \hB96F, 2688,
  \hBE70, 2848, \hC380, 1984, \hC65A, 2688, \hCF8B, 2112, \hD39B, 2688,
  \hD8F1, 2880, \hDDF5, 1984, \hE0C8, 2752, \hE646, 1664, \hEA18, 1664,
  \hEDE8, 1728, \hF1E3, 2720, \hFBEE, 1600>>)

Bank3B == Entries(\h3B, <<
  \h0000, 1728, \h03CD, 2208, \h0825, 2048, \h0BA8, 960, \h0C96, 2624,
  \h11FA, 2624, \h16DA, 2336, \h1BBC, 1952, \h1FB2, 1792, \h23C0, 1920,
  \h27DF, 2752, \h2D03, 2304, \h31E9, 1664, \h35A7, 1312, \h3885, 1312,
  \h4524, 2368, \h4A6D, 2304, \h4F62, 1856, \h52DE, 2368, \h5715, 2912,
  \h6188, 2976, \h6744, 2816, \h6CB6, 2176, \h709D, 2400, \h7A1B, 2432,
  \h7E70, 2976, \h9590, 2624, \h9F85, 2304, \hA456, 3040, \hBC09, 2272,
  \hD4C1, 2400, \hE98B, 2528, \hEEBE, 2240, \hF2DF, 2368, \hF69E, 2496,
  \hFB4D, 2176>>)

REQUESTS ==
  Bank13 \o Bank14 \o Bank15 \o Bank16 \o Bank17 \o Bank18 \o Bank19
  \o Bank1A \o Bank1B \o Bank1C \o Bank1D \o Bank1E \o Bank20 \o Bank21
  \o Bank22 \o Bank23 \o Bank24 \o Bank25 \o Bank26 \o Bank27 \o Bank28
  \o Bank29 \o Bank2A \o Bank2B \o Bank2C \o Bank2D \o Bank2E \o Bank2F
  \o Bank30 \o Bank32 \o Bank33 \o Bank34 \o Bank35 \o Bank36 \o Bank37
  \o Bank38 \o Bank39 \o Bank3A \o Bank3B
=============================================================================
