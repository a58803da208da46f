-------------------------- MODULE AssignedNumbers --------------------------
(***************************************************************************)
(* untether_bt._assigned_numbers: the numbers that the shipped tables name *)
(* (and, for the nested tables, those that each entry names).  What the    *)
(* names say is left out.                                                  *)
(***************************************************************************)
EXTENDS Integers, TLC

COMPANY_IDS ==
  (0..4060 \ {53, 102, 109, 124, 126, 136, 212, 230, 246, 249, 276, 281, 319,
  386, 389, 390, 399, 419, 430, 448, 451, 471, 476, 482, 487, 488, 489, 491,
  493, 516, 517, 525, 536, 559, 572, 578, 585, 608, 648, 653, 658, 673, 684,
  703, 716, 759, 762, 765, 782, 801, 802, 805, 818, 828, 832, 840, 842, 846,
  871, 881, 900, 916, 937, 940, 1000, 1011, 1030, 1036, 1044, 1045, 1048,
  1084, 1089, 1109, 1113, 1115, 1126, 1142, 1148, 1152, 1155, 1163, 1173,
  1184, 1185, 1193, 1200, 1228, 1250, 1255, 1261, 1307, 1349, 1360, 1381,
  1385, 1401, 1408, 1470, 1478, 1518, 1540, 1559, 1571, 1578, 1653, 1662,
  1676, 1677, 1693, 1715, 1727, 1735, 1743, 1747, 1748, 1772, 1774, 1815,
  1831, 1852, 1856, 1868, 1907, 1915, 1927, 1953, 1955, 1977, 1980, 1985,
  1994, 2017, 2096, 2143, 2181, 2190, 2200, 2213, 2229, 2244, 2246, 2262,
  2298, 2336, 2354, 2371, 2394, 2412, 2415, 2418, 2445, 2509, 2515, 2524,
  2528, 2530, 2557, 2569, 2599, 2606, 2622, 2624, 2633, 2654, 2659, 2662,
  2710, 2711, 2718, 2777, 2784, 2785, 2786, 2820, 2825, 2843, 2849, 2856,
  2858, 2886, 2905, 2906, 2908, 2927, 2960, 2962, 2965, 2971, 3005, 3031,
  3033, 3041, 3052, 3060, 3065, 3126, 3130, 3142, 3174, 3190, 3198, 3224,
  3256, 3262, 3294, 3314, 3325, 3328, 3345, 3404, 3420, 3464, 3476, 3501,
  3544, 3594, 3598, 3688, 3693, 3694, 3749, 3768, 3828, 4059})
  \cup {4154} \cup 4157..4316 \cup {65535}

GATT_SERVICES ==
  6144..6154 \cup 6157..6166 \cup 6168..6185 \cup 6202..6204 \cup 6211..6233
  \cup {6206, 6235, 64781, 64879, 65039, 65068, 65113, 65194, 65211}

GATT_CHARACTERISTICS ==
  4659..4663 \cup 10752..10796 \cup 10799..10848 \cup 10850..10875
  \cup 10877..10953 \cup 10956..10974 \cup 10976..11054 \cup 11060..11062
  \cup 11064..11089 \cup 11127..11143 \cup 11150..11175 \cup 11177..11269
  \cup 11284..11289 \cup {5412, 11148}

GATT_DESCRIPTORS ==
  10496..10513

SDP_SERVICE_CLASSES ==
  4096..4097 \cup 4353..4392 \cup 4397..4414 \cup 4608..4614 \cup 4864..4869
  \cup 5120..5122

PROTOCOL_IDS ==
  1..10 \cup 14..18 \cup 22..23 \cup 30..31 \cup {12, 20, 25, 27, 256}

AD_TYPES ==
  1..10 \cup 13..18 \cup 20..50 \cup {52, 61, 255}

APPEARANCE_CATEGORIES ==
  0..43 \cup 49..55 \cup 81..84

APPEARANCE_SUBCATEGORIES ==
     2 :> (1..15) @@ 3 :> (1..2) @@ 12 :> {1} @@ 13 :> {1}
  @@ 14 :> (1..2) @@ 15 :> (1..10) @@ 17 :> (1..3) @@ 18 :> (1..5)
  @@ 19 :> (1..13) @@ 20 :> (1..3) @@ 21 :> (1..25) @@ 22 :> (1..25)
  @@ 23 :> (1..6) @@ 24 :> (1..11) @@ 27 :> (1..7) @@ 28 :> (1..9)
  @@ 29 :> (1..5) @@ 30 :> (1..9) @@ 31 :> (1..8) @@ 32 :> (1..6)
  @@ 33 :> (1..5) @@ 34 :> (1..9) @@ 35 :> (1..15) @@ 36 :> (1..15)
  @@ 37 :> (1..6) @@ 38 :> (1..4) @@ 39 :> (1..10) @@ 40 :> (1..3)
  @@ 41 :> (1..3) @@ 42 :> (1..2) @@ 43 :> (1..2) @@ 49 :> (1..2)
  @@ 51 :> (1..2) @@ 53 :> {1, 4, 8} @@ 55 :> {1} @@ 81 :> (1..4)
  @@ 82 :> (1..6) @@ 83 :> (1..9) @@ 84 :> (1..20)

COD_MAJOR_SERVICE_CLASSES ==
  13..23

COD_MAJOR_DEVICE_CLASSES ==
  0..9 \cup {31}

COD_MINOR_DEVICE_CLASSES ==
     1 :> (0..7) @@ 2 :> (0..5) @@ 3 :> (0..7) @@ 4 :> (0..20)
  @@ 5 :> (0..3) @@ 7 :> (1..6) @@ 8 :> (1..5) @@ 9 :> (0..15)
=============================================================================
